---- MODULE Spec2Model ----
(***************************************************************************)
(* Model of the paid-clinic dataset generator:                             *)
(*   src/validators.py         UniquenessTracker and the format validators *)
(*   src/utils.py              identifier generators, analysis timestamp   *)
(*   src/dataset_generator.py  DatasetGenerator (client pool, records)     *)
(*                                                                         *)
(* Strings are modelled as sequences of one-character strings, digits of   *)
(* a number as sequences of integers 0..9, so that formatting and parsing  *)
(* are computed and not assumed.  Every random.* draw of the code is an    *)
(* input of the action that models the call, chosen with \E.               *)
(***************************************************************************)
EXTENDS Integers, Sequences, FiniteSets, TLC

VARIABLES
    uniqueness_tracker, \* DatasetGenerator.uniqueness_tracker (UniquenessTracker)
    clients_pool,       \* DatasetGenerator.clients_pool
    stats,              \* DatasetGenerator.stats (new_clients, repeat_visits)
    dataset,            \* generate_dataset: iterations done, records appended and
                        \* the distinct identity fields of the appended records
    card_paths,         \* the branches of the card selection taken so far, each with
                        \* what use_card returned
    sample,             \* the values the random draws of this run are taken from
    call,               \* last direct call of a tracker method: name, arguments,
                        \* return value
    fn                  \* state of the pure-function runs (card, SNILS, analysis time)

vars == <<uniqueness_tracker, clients_pool, stats, dataset, card_paths, sample, call, fn>>

\* Python's None, as a value that can be compared with a string (a sequence)
None == <<"None">>

\* a key the record dict does not have
Absent == <<"absent">>

\* a value that is neither None nor a string (an int)
NotAString == <<"int">>

Digit == 0..9

\* Python truthiness of an Optional[str]: None and "" are falsy.
Truthy(x) == x # None /\ x # <<>>

\* dict.get(key, default)
Get(d, k, default) == IF k \in DOMAIN d THEN d[k] ELSE default

\* d[k] = v on a dict
Put(d, k, v) == [x \in DOMAIN d \cup {k} |-> IF x = k THEN v ELSE d[x]]

(***************************************************************************)
(* UniquenessTracker (src/validators.py:224-290).  A tracker is a record   *)
(* of its four attributes; a method is an operator from the tracker and    *)
(* the arguments to [tr |-> tracker after the call, ret |-> return value]. *)
(***************************************************************************)

\* UniquenessTracker.__init__
NewTracker ==
    [passports       |-> {},
     fio_to_passport |-> <<>>,
     snils_by_client |-> <<>>,
     card_usage      |-> <<>>]

\* default of the `limit` parameter of can_use_card, the one use_card relies on
DefaultLimit == 5

is_passport_unique(tr, passport) == passport \notin tr.passports

add_passport_replace(tr, passport) ==
    IF is_passport_unique(tr, passport)
    THEN [tr |-> [tr EXCEPT !.passports = {passport}], ret |-> TRUE]
    ELSE [tr |-> tr, ret |-> FALSE]

add_passport(tr, passport) ==
    IF is_passport_unique(tr, passport)
    THEN [tr |-> [tr EXCEPT !.passports = @ \cup {passport}], ret |-> TRUE]
    ELSE [tr |-> tr, ret |-> FALSE]

get_fio_passport(tr, fio) == Get(tr.fio_to_passport, fio, None)

add_fio_passport_overwrite(tr, fio, passport) ==
    LET t1 == [tr EXCEPT !.fio_to_passport = Put(@, fio, passport)]
    IN  [tr |-> add_passport(t1, passport).tr, ret |-> fio \notin DOMAIN tr.fio_to_passport]

add_fio_passport(tr, fio, passport) ==
    IF fio \notin DOMAIN tr.fio_to_passport
    THEN LET t1 == [tr EXCEPT !.fio_to_passport = Put(@, fio, passport)]
         IN  [tr |-> add_passport(t1, passport).tr, ret |-> TRUE]
    ELSE [tr |-> tr, ret |-> FALSE]

get_client_snils(tr, fio, passport) == Get(tr.snils_by_client, <<fio, passport>>, None)

add_client_snils_overwrite(tr, fio, passport, snils) ==
    [tr  |-> [tr EXCEPT !.snils_by_client = Put(@, <<fio, passport>>, snils)],
     ret |-> <<fio, passport>> \notin DOMAIN tr.snils_by_client]

add_client_snils(tr, fio, passport, snils) ==
    LET client_key == <<fio, passport>>
    IN  IF client_key \notin DOMAIN tr.snils_by_client
        THEN [tr |-> [tr EXCEPT !.snils_by_client = Put(@, client_key, snils)], ret |-> TRUE]
        ELSE [tr |-> tr, ret |-> FALSE]

can_use_card(tr, card_number, limit) ==
    LET current_usage == Get(tr.card_usage, card_number, 0)
    IN  current_usage < limit

use_card_inclusive_limit(tr, card_number) ==
    IF Get(tr.card_usage, card_number, 0) <= DefaultLimit
    THEN [tr  |-> [tr EXCEPT !.card_usage = Put(@, card_number, Get(@, card_number, 0) + 1)],
          ret |-> TRUE]
    ELSE [tr |-> tr, ret |-> FALSE]

use_card_unchecked(tr, card_number) ==
    [tr  |-> [tr EXCEPT !.card_usage = Put(@, card_number, Get(@, card_number, 0) + 1)],
     ret |-> TRUE]

use_card(tr, card_number) ==
    IF can_use_card(tr, card_number, DefaultLimit)
    THEN [tr  |-> [tr EXCEPT !.card_usage = Put(@, card_number, Get(@, card_number, 0) + 1)],
          ret |-> TRUE]
    ELSE [tr |-> tr, ret |-> FALSE]

RECURSIVE SumValues(_)
SumValues(d) ==
    IF DOMAIN d = {} THEN 0
    ELSE LET k == CHOOSE x \in DOMAIN d : TRUE
         IN  d[k] + SumValues([x \in DOMAIN d \ {k} |-> d[x]])

get_stats(tr) ==
    [unique_passports |-> Cardinality(tr.passports),
     unique_clients   |-> Cardinality(DOMAIN tr.fio_to_passport),
     cards_in_use     |-> Cardinality(DOMAIN tr.card_usage),
     total_card_usage |-> SumValues(tr.card_usage)]

(***************************************************************************)
(* Strings and numbers                                                     *)
(***************************************************************************)

DigitChars == <<"0", "1", "2", "3", "4", "5", "6", "7", "8", "9">>
UpperChars == {"A", "B", "C", "D", "E", "F", "G", "H", "I", "J", "K", "L", "M",
               "N", "O", "P", "Q", "R", "S", "T", "U", "V", "W", "X", "Y", "Z"}

\* A character outside ASCII is named by its code point, "U+" and its hexadecimal
\* digits.  UnicodeDecimalDigits are the decimal digits outside ASCII (category
\* Nd, Unicode 14.0), one row of "0".."9" per script; OtherDigitChars are the
\* characters that are digits without being decimal digits (superscripts,
\* circled digits, ...).
UnicodeDecimalDigits ==
    <<
      <<"U+0660", "U+0661", "U+0662", "U+0663", "U+0664", "U+0665", "U+0666", "U+0667", "U+0668", "U+0669">>,
      <<"U+06F0", "U+06F1", "U+06F2", "U+06F3", "U+06F4", "U+06F5", "U+06F6", "U+06F7", "U+06F8", "U+06F9">>,
      <<"U+07C0", "U+07C1", "U+07C2", "U+07C3", "U+07C4", "U+07C5", "U+07C6", "U+07C7", "U+07C8", "U+07C9">>,
      <<"U+0966", "U+0967", "U+0968", "U+0969", "U+096A", "U+096B", "U+096C", "U+096D", "U+096E", "U+096F">>,
      <<"U+09E6", "U+09E7", "U+09E8", "U+09E9", "U+09EA", "U+09EB", "U+09EC", "U+09ED", "U+09EE", "U+09EF">>,
      <<"U+0A66", "U+0A67", "U+0A68", "U+0A69", "U+0A6A", "U+0A6B", "U+0A6C", "U+0A6D", "U+0A6E", "U+0A6F">>,
      <<"U+0AE6", "U+0AE7", "U+0AE8", "U+0AE9", "U+0AEA", "U+0AEB", "U+0AEC", "U+0AED", "U+0AEE", "U+0AEF">>,
      <<"U+0B66", "U+0B67", "U+0B68", "U+0B69", "U+0B6A", "U+0B6B", "U+0B6C", "U+0B6D", "U+0B6E", "U+0B6F">>,
      <<"U+0BE6", "U+0BE7", "U+0BE8", "U+0BE9", "U+0BEA", "U+0BEB", "U+0BEC", "U+0BED", "U+0BEE", "U+0BEF">>,
      <<"U+0C66", "U+0C67", "U+0C68", "U+0C69", "U+0C6A", "U+0C6B", "U+0C6C", "U+0C6D", "U+0C6E", "U+0C6F">>,
      <<"U+0CE6", "U+0CE7", "U+0CE8", "U+0CE9", "U+0CEA", "U+0CEB", "U+0CEC", "U+0CED", "U+0CEE", "U+0CEF">>,
      <<"U+0D66", "U+0D67", "U+0D68", "U+0D69", "U+0D6A", "U+0D6B", "U+0D6C", "U+0D6D", "U+0D6E", "U+0D6F">>,
      <<"U+0DE6", "U+0DE7", "U+0DE8", "U+0DE9", "U+0DEA", "U+0DEB", "U+0DEC", "U+0DED", "U+0DEE", "U+0DEF">>,
      <<"U+0E50", "U+0E51", "U+0E52", "U+0E53", "U+0E54", "U+0E55", "U+0E56", "U+0E57", "U+0E58", "U+0E59">>,
      <<"U+0ED0", "U+0ED1", "U+0ED2", "U+0ED3", "U+0ED4", "U+0ED5", "U+0ED6", "U+0ED7", "U+0ED8", "U+0ED9">>,
      <<"U+0F20", "U+0F21", "U+0F22", "U+0F23", "U+0F24", "U+0F25", "U+0F26", "U+0F27", "U+0F28", "U+0F29">>,
      <<"U+1040", "U+1041", "U+1042", "U+1043", "U+1044", "U+1045", "U+1046", "U+1047", "U+1048", "U+1049">>,
      <<"U+1090", "U+1091", "U+1092", "U+1093", "U+1094", "U+1095", "U+1096", "U+1097", "U+1098", "U+1099">>,
      <<"U+17E0", "U+17E1", "U+17E2", "U+17E3", "U+17E4", "U+17E5", "U+17E6", "U+17E7", "U+17E8", "U+17E9">>,
      <<"U+1810", "U+1811", "U+1812", "U+1813", "U+1814", "U+1815", "U+1816", "U+1817", "U+1818", "U+1819">>,
      <<"U+1946", "U+1947", "U+1948", "U+1949", "U+194A", "U+194B", "U+194C", "U+194D", "U+194E", "U+194F">>,
      <<"U+19D0", "U+19D1", "U+19D2", "U+19D3", "U+19D4", "U+19D5", "U+19D6", "U+19D7", "U+19D8", "U+19D9">>,
      <<"U+1A80", "U+1A81", "U+1A82", "U+1A83", "U+1A84", "U+1A85", "U+1A86", "U+1A87", "U+1A88", "U+1A89">>,
      <<"U+1A90", "U+1A91", "U+1A92", "U+1A93", "U+1A94", "U+1A95", "U+1A96", "U+1A97", "U+1A98", "U+1A99">>,
      <<"U+1B50", "U+1B51", "U+1B52", "U+1B53", "U+1B54", "U+1B55", "U+1B56", "U+1B57", "U+1B58", "U+1B59">>,
      <<"U+1BB0", "U+1BB1", "U+1BB2", "U+1BB3", "U+1BB4", "U+1BB5", "U+1BB6", "U+1BB7", "U+1BB8", "U+1BB9">>,
      <<"U+1C40", "U+1C41", "U+1C42", "U+1C43", "U+1C44", "U+1C45", "U+1C46", "U+1C47", "U+1C48", "U+1C49">>,
      <<"U+1C50", "U+1C51", "U+1C52", "U+1C53", "U+1C54", "U+1C55", "U+1C56", "U+1C57", "U+1C58", "U+1C59">>,
      <<"U+A620", "U+A621", "U+A622", "U+A623", "U+A624", "U+A625", "U+A626", "U+A627", "U+A628", "U+A629">>,
      <<"U+A8D0", "U+A8D1", "U+A8D2", "U+A8D3", "U+A8D4", "U+A8D5", "U+A8D6", "U+A8D7", "U+A8D8", "U+A8D9">>,
      <<"U+A900", "U+A901", "U+A902", "U+A903", "U+A904", "U+A905", "U+A906", "U+A907", "U+A908", "U+A909">>,
      <<"U+A9D0", "U+A9D1", "U+A9D2", "U+A9D3", "U+A9D4", "U+A9D5", "U+A9D6", "U+A9D7", "U+A9D8", "U+A9D9">>,
      <<"U+A9F0", "U+A9F1", "U+A9F2", "U+A9F3", "U+A9F4", "U+A9F5", "U+A9F6", "U+A9F7", "U+A9F8", "U+A9F9">>,
      <<"U+AA50", "U+AA51", "U+AA52", "U+AA53", "U+AA54", "U+AA55", "U+AA56", "U+AA57", "U+AA58", "U+AA59">>,
      <<"U+ABF0", "U+ABF1", "U+ABF2", "U+ABF3", "U+ABF4", "U+ABF5", "U+ABF6", "U+ABF7", "U+ABF8", "U+ABF9">>,
      <<"U+FF10", "U+FF11", "U+FF12", "U+FF13", "U+FF14", "U+FF15", "U+FF16", "U+FF17", "U+FF18", "U+FF19">>,
      <<"U+104A0", "U+104A1", "U+104A2", "U+104A3", "U+104A4", "U+104A5", "U+104A6", "U+104A7", "U+104A8", "U+104A9">>,
      <<"U+10D30", "U+10D31", "U+10D32", "U+10D33", "U+10D34", "U+10D35", "U+10D36", "U+10D37", "U+10D38", "U+10D39">>,
      <<"U+11066", "U+11067", "U+11068", "U+11069", "U+1106A", "U+1106B", "U+1106C", "U+1106D", "U+1106E", "U+1106F">>,
      <<"U+110F0", "U+110F1", "U+110F2", "U+110F3", "U+110F4", "U+110F5", "U+110F6", "U+110F7", "U+110F8", "U+110F9">>,
      <<"U+11136", "U+11137", "U+11138", "U+11139", "U+1113A", "U+1113B", "U+1113C", "U+1113D", "U+1113E", "U+1113F">>,
      <<"U+111D0", "U+111D1", "U+111D2", "U+111D3", "U+111D4", "U+111D5", "U+111D6", "U+111D7", "U+111D8", "U+111D9">>,
      <<"U+112F0", "U+112F1", "U+112F2", "U+112F3", "U+112F4", "U+112F5", "U+112F6", "U+112F7", "U+112F8", "U+112F9">>,
      <<"U+11450", "U+11451", "U+11452", "U+11453", "U+11454", "U+11455", "U+11456", "U+11457", "U+11458", "U+11459">>,
      <<"U+114D0", "U+114D1", "U+114D2", "U+114D3", "U+114D4", "U+114D5", "U+114D6", "U+114D7", "U+114D8", "U+114D9">>,
      <<"U+11650", "U+11651", "U+11652", "U+11653", "U+11654", "U+11655", "U+11656", "U+11657", "U+11658", "U+11659">>,
      <<"U+116C0", "U+116C1", "U+116C2", "U+116C3", "U+116C4", "U+116C5", "U+116C6", "U+116C7", "U+116C8", "U+116C9">>,
      <<"U+11730", "U+11731", "U+11732", "U+11733", "U+11734", "U+11735", "U+11736", "U+11737", "U+11738", "U+11739">>,
      <<"U+118E0", "U+118E1", "U+118E2", "U+118E3", "U+118E4", "U+118E5", "U+118E6", "U+118E7", "U+118E8", "U+118E9">>,
      <<"U+11950", "U+11951", "U+11952", "U+11953", "U+11954", "U+11955", "U+11956", "U+11957", "U+11958", "U+11959">>,
      <<"U+11C50", "U+11C51", "U+11C52", "U+11C53", "U+11C54", "U+11C55", "U+11C56", "U+11C57", "U+11C58", "U+11C59">>,
      <<"U+11D50", "U+11D51", "U+11D52", "U+11D53", "U+11D54", "U+11D55", "U+11D56", "U+11D57", "U+11D58", "U+11D59">>,
      <<"U+11DA0", "U+11DA1", "U+11DA2", "U+11DA3", "U+11DA4", "U+11DA5", "U+11DA6", "U+11DA7", "U+11DA8", "U+11DA9">>,
      <<"U+16A60", "U+16A61", "U+16A62", "U+16A63", "U+16A64", "U+16A65", "U+16A66", "U+16A67", "U+16A68", "U+16A69">>,
      <<"U+16AC0", "U+16AC1", "U+16AC2", "U+16AC3", "U+16AC4", "U+16AC5", "U+16AC6", "U+16AC7", "U+16AC8", "U+16AC9">>,
      <<"U+16B50", "U+16B51", "U+16B52", "U+16B53", "U+16B54", "U+16B55", "U+16B56", "U+16B57", "U+16B58", "U+16B59">>,
      <<"U+1D7CE", "U+1D7CF", "U+1D7D0", "U+1D7D1", "U+1D7D2", "U+1D7D3", "U+1D7D4", "U+1D7D5", "U+1D7D6", "U+1D7D7">>,
      <<"U+1D7D8", "U+1D7D9", "U+1D7DA", "U+1D7DB", "U+1D7DC", "U+1D7DD", "U+1D7DE", "U+1D7DF", "U+1D7E0", "U+1D7E1">>,
      <<"U+1D7E2", "U+1D7E3", "U+1D7E4", "U+1D7E5", "U+1D7E6", "U+1D7E7", "U+1D7E8", "U+1D7E9", "U+1D7EA", "U+1D7EB">>,
      <<"U+1D7EC", "U+1D7ED", "U+1D7EE", "U+1D7EF", "U+1D7F0", "U+1D7F1", "U+1D7F2", "U+1D7F3", "U+1D7F4", "U+1D7F5">>,
      <<"U+1D7F6", "U+1D7F7", "U+1D7F8", "U+1D7F9", "U+1D7FA", "U+1D7FB", "U+1D7FC", "U+1D7FD", "U+1D7FE", "U+1D7FF">>,
      <<"U+1E140", "U+1E141", "U+1E142", "U+1E143", "U+1E144", "U+1E145", "U+1E146", "U+1E147", "U+1E148", "U+1E149">>,
      <<"U+1E2F0", "U+1E2F1", "U+1E2F2", "U+1E2F3", "U+1E2F4", "U+1E2F5", "U+1E2F6", "U+1E2F7", "U+1E2F8", "U+1E2F9">>,
      <<"U+1E950", "U+1E951", "U+1E952", "U+1E953", "U+1E954", "U+1E955", "U+1E956", "U+1E957", "U+1E958", "U+1E959">>,
      <<"U+1FBF0", "U+1FBF1", "U+1FBF2", "U+1FBF3", "U+1FBF4", "U+1FBF5", "U+1FBF6", "U+1FBF7", "U+1FBF8", "U+1FBF9">>
    >>

OtherDigitChars ==
    {
     "U+00B2", "U+00B3", "U+00B9", "U+1369", "U+136A", "U+136B", "U+136C", "U+136D",
     "U+136E", "U+136F", "U+1370", "U+1371", "U+19DA", "U+2070", "U+2074", "U+2075",
     "U+2076", "U+2077", "U+2078", "U+2079", "U+2080", "U+2081", "U+2082", "U+2083",
     "U+2084", "U+2085", "U+2086", "U+2087", "U+2088", "U+2089", "U+2460", "U+2461",
     "U+2462", "U+2463", "U+2464", "U+2465", "U+2466", "U+2467", "U+2468", "U+2474",
     "U+2475", "U+2476", "U+2477", "U+2478", "U+2479", "U+247A", "U+247B", "U+247C",
     "U+2488", "U+2489", "U+248A", "U+248B", "U+248C", "U+248D", "U+248E", "U+248F",
     "U+2490", "U+24EA", "U+24F5", "U+24F6", "U+24F7", "U+24F8", "U+24F9", "U+24FA",
     "U+24FB", "U+24FC", "U+24FD", "U+24FF", "U+2776", "U+2777", "U+2778", "U+2779",
     "U+277A", "U+277B", "U+277C", "U+277D", "U+277E", "U+2780", "U+2781", "U+2782",
     "U+2783", "U+2784", "U+2785", "U+2786", "U+2787", "U+2788", "U+278A", "U+278B",
     "U+278C", "U+278D", "U+278E", "U+278F", "U+2790", "U+2791", "U+2792", "U+10A40",
     "U+10A41", "U+10A42", "U+10A43", "U+10E60", "U+10E61", "U+10E62", "U+10E63", "U+10E64",
     "U+10E65", "U+10E66", "U+10E67", "U+10E68", "U+11052", "U+11053", "U+11054", "U+11055",
     "U+11056", "U+11057", "U+11058", "U+11059", "U+1105A", "U+1F100", "U+1F101", "U+1F102",
     "U+1F103", "U+1F104", "U+1F105", "U+1F106", "U+1F107", "U+1F108", "U+1F109", "U+1F10A"
    }

Newline == "\n"

\* str(d) of one digit
Chr(d) == DigitChars[d + 1]
DigitCharSet == {"0", "1", "2", "3", "4", "5", "6", "7", "8", "9"}
DecimalCharSet ==
    DigitCharSet \cup {UnicodeDecimalDigits[r][i] : r \in DOMAIN UnicodeDecimalDigits, i \in 1..10}

\* "0".."9", the digits datetime.fromisoformat reads
IsAsciiDigit(c) == c \in DigitCharSet

\* \d of re on a str, and the characters int() reads: every decimal digit
IsDecimalChar(c) == c \in DecimalCharSet

\* c.isdigit(): the decimal digits and the other digits
IsDigitChar(c) == IsDecimalChar(c) \/ c \in OtherDigitChars

\* int(c) of one decimal digit
Ord(c) ==
    IF c \in DigitCharSet THEN CHOOSE d \in Digit : c = DigitChars[d + 1]
    ELSE CHOOSE d \in Digit :
             \E r \in DOMAIN UnicodeDecimalDigits : c = UnicodeDecimalDigits[r][d + 1]

Min(a, b) == IF a < b THEN a ELSE b

\* s[a:b] of Python, 0-based, b exclusive, clipped at the end of s
Slice(s, a, b) == SubSeq(s, a + 1, Min(b, Len(s)))

\* s[::-1]
Reversed(s) == [i \in 1..Len(s) |-> s[Len(s) + 1 - i]]

\* ''.join(map(str, digits))
DigitsStr(digits) == [i \in 1..Len(digits) |-> Chr(digits[i])]

\* str(n) for n >= 0
RECURSIVE Str(_)
Str(n) == IF n < 10 THEN <<Chr(n)>> ELSE Str(n \div 10) \o <<Chr(n % 10)>>

\* f"{n:02d}" for n >= 0
Format02d(n) == IF n < 10 THEN <<"0">> \o Str(n) ELSE Str(n)

\* int(s) of a string of decimal digits
RECURSIVE ParseInt(_)
ParseInt(s) == IF Len(s) = 0 THEN 0 ELSE 10 * ParseInt(SubSeq(s, 1, Len(s) - 1)) + Ord(s[Len(s)])

\* s.replace(c, "") for a one-character c
RECURSIVE Without(_, _)
Without(s, c) ==
    IF Len(s) = 0 THEN <<>>
    ELSE (IF Head(s) = c THEN <<>> ELSE <<Head(s)>>) \o Without(Tail(s), c)

\* str.isdigit(): non-empty and all digits
IsDigitStr(s) == Len(s) > 0 /\ \A i \in 1..Len(s) : IsDigitChar(s[i])

\* str.isdecimal(): what int(c) accepts for every character c of s
IsDecimalStr(s) == Len(s) > 0 /\ \A i \in 1..Len(s) : IsDecimalChar(s[i])

\* the characters of s at the positions ps match \d
DecimalsAt(s, ps) == \A i \in ps : IsDecimalChar(s[i])

\* what is left for a pattern that ends in $: $ matches at the end of the string
\* and before a newline that ends it
BeforeFinalNewline(s) ==
    IF Len(s) > 0 /\ s[Len(s)] = Newline THEN SubSeq(s, 1, Len(s) - 1) ELSE s

(***************************************************************************)
(* SNILS: generator (src/utils.py:80-108), validator                       *)
(* (src/validators.py:102-137)                                             *)
(***************************************************************************)

\* control_sum of lines 91-93 and 125-127: sum of digit * (9 - i), i from 0
RECURSIVE WeightedSum(_, _)
WeightedSum(digits, i) ==
    IF i >= Len(digits) THEN 0
    ELSE digits[i + 1] * (9 - i) + WeightedSum(digits, i + 1)

snils_control_number_mod100(control_sum) ==
    IF control_sum < 100 THEN control_sum ELSE control_sum % 100

\* lines 96-102
snils_control_number(control_sum) ==
    IF control_sum < 100 THEN control_sum
    ELSE IF control_sum \in {100, 101} THEN 0
    ELSE LET m == control_sum % 101
         IN  IF m = 100 THEN 0 ELSE m

\* generate_snils_number with the 9 drawn digits as its input
generate_snils_number(digits) ==
    LET control_number == snils_control_number(WeightedSum(digits, 0))
        digits_str     == DigitsStr(digits)
    IN  Slice(digits_str, 0, 3) \o <<"-">> \o Slice(digits_str, 3, 6) \o <<"-">>
            \o Slice(digits_str, 6, 9) \o <<" ">> \o Format02d(control_number)

\* re.match(r"^\d{3}-\d{3}-\d{3} \d{2}$", snils)
MatchSnils(snils) ==
    LET s == BeforeFinalNewline(snils)
    IN  /\ Len(s) = 14
        /\ DecimalsAt(s, {1, 2, 3, 5, 6, 7, 9, 10, 11, 13, 14})
        /\ s[4] = "-" /\ s[8] = "-" /\ s[12] = " "

validate_snils_format(snils) ==
    IF ~MatchSnils(snils) THEN FALSE
    ELSE LET digits == Without(Without(snils, "-"), " ")
         IN  IF Len(digits) # 11 THEN FALSE
             ELSE LET number_part    == Slice(digits, 0, 9)
                      control_sum    == ParseInt(Slice(digits, 9, 11))
                      calculated_sum == WeightedSum([i \in 1..9 |-> Ord(number_part[i])], 0)
                  IN  IF calculated_sum < 100 THEN calculated_sum = control_sum
                      ELSE IF calculated_sum = 100 \/ calculated_sum = 101
                      THEN control_sum = 0
                      ELSE LET m == calculated_sum % 101
                           IN  IF m = 100 THEN control_sum = 0 ELSE m = control_sum

(***************************************************************************)
(* Bank card: generator (src/utils.py:318-387), validator                  *)
(* (src/validators.py:140-171)                                             *)
(***************************************************************************)

\* one digit's share of the Luhn total; i is the 0-based index from the right
LuhnDigit(digit, i) ==
    IF i % 2 = 1
    THEN (IF digit * 2 > 9 THEN ((digit * 2) \div 10) + ((digit * 2) % 10) ELSE digit * 2)
    ELSE digit

RECURSIVE LuhnTotal(_, _)
LuhnTotal(reverse_digits, i) ==
    IF i >= Len(reverse_digits) THEN 0
    ELSE LuhnDigit(Ord(reverse_digits[i + 1]), i) + LuhnTotal(reverse_digits, i + 1)

RECURSIVE PlainTotal(_, _)
PlainTotal(reverse_digits, i) ==
    IF i >= Len(reverse_digits) THEN 0
    ELSE Ord(reverse_digits[i + 1]) + PlainTotal(reverse_digits, i + 1)

RECURSIVE ShiftedTotal(_, _)
ShiftedTotal(reverse_digits, i) ==
    IF i >= Len(reverse_digits) THEN 0
    ELSE LuhnDigit(Ord(reverse_digits[i + 1]), i + 1) + ShiftedTotal(reverse_digits, i + 1)

luhn_checksum_double_even(card_num) == ShiftedTotal(Reversed(card_num), 0) % 10

luhn_checksum_no_doubling(card_num) == PlainTotal(Reversed(card_num), 0) % 10

\* the nested luhn_checksum of generate_bank_card, lines 358-372
luhn_checksum(card_num) == LuhnTotal(Reversed(card_num), 0) % 10

\* lines 375-379: the check digits the for loop would accept
CheckDigits(partial_number) ==
    {d \in Digit : luhn_checksum(partial_number \o <<Chr(d)>>) = 0}

\* lines 375-382: the first accepted check digit, or the "0" of the else branch
full_card_number(partial_number) ==
    LET accepted == CheckDigits(partial_number)
    IN  IF accepted # {}
        THEN LET check_digit == CHOOSE d \in accepted : \A e \in accepted : d <= e
             IN  partial_number \o <<Chr(check_digit)>>
        ELSE partial_number \o <<"0">>

\* generate_bank_card from line 351 on: the BIN chosen and the 9 digits drawn are
\* its inputs; returns formatted_number
generate_bank_card(bin_code, remaining) ==
    LET partial_number == bin_code \o DigitsStr(remaining)
        full_number    == full_card_number(partial_number)
    IN  Slice(full_number, 0, 4) \o <<" ">> \o Slice(full_number, 4, 8) \o <<" ">>
            \o Slice(full_number, 8, 12) \o <<" ">> \o Slice(full_number, 12, 16)

\* src/validators.py:140-171.  Returns [raised, ret]: the int(char) of line 162
\* raises ValueError for a digit that is not a decimal digit
validate_card_number(card_number) ==
    LET card_clean == Without(card_number, " ")
    IN  IF ~IsDigitStr(card_clean) \/ Len(card_clean) # 16
        THEN [raised |-> FALSE, ret |-> FALSE]
        ELSE IF ~IsDecimalStr(card_clean) THEN [raised |-> TRUE, ret |-> FALSE]
        ELSE [raised |-> FALSE, ret |-> LuhnTotal(Reversed(card_clean), 0) % 10 = 0]

(***************************************************************************)
(* Configuration (config.py, imported by src/utils.py:15-20 and            *)
(* src/dataset_generator.py:14)                                            *)
(***************************************************************************)

WORK_HOURS_START   == 9
WORK_HOURS_END     == 18
WORK_DAYS          == {0, 1, 2, 3, 4}   \* Monday .. Friday
ANALYSIS_MIN_HOURS == 24
ANALYSIS_MAX_HOURS == 72
CARD_REUSE_LIMIT   == 5

(***************************************************************************)
(* Timestamps (src/utils.py:220-302).  A datetime is its number of minutes *)
(* since 00:00 of a Monday; seconds are always 0 (line 254).               *)
(***************************************************************************)

MinutesPerDay == 1440

Weekday(dt) == (dt \div MinutesPerDay) % 7
Hour(dt)    == (dt % MinutesPerDay) \div 60
Minute(dt)  == dt % 60

\* timedelta(hours=h), timedelta(days=d)
Hours(h) == h * 60
Days(d)  == d * MinutesPerDay

\* dt.replace(hour=h, minute=m)
ReplaceHourMinute(dt, h, m) == (dt \div MinutesPerDay) * MinutesPerDay + h * 60 + m

\* minutes drawn by generate_working_datetime, line 252
WorkMinutes == {0, 15, 30, 45}

\* the values generate_working_datetime returns within one week (lines 243-254)
WorkingDatetimes ==
    {Days(d) + h * 60 + m : d \in WORK_DAYS, h \in WORK_HOURS_START..(WORK_HOURS_END - 1),
                            m \in WorkMinutes}

\* lines 277-282
to_working_day(analysis_datetime) ==
    IF Weekday(analysis_datetime) \notin WORK_DAYS
    THEN LET days_to_add == CHOOSE d \in 1..7 :
                 /\ Weekday(analysis_datetime + Days(d)) \in WORK_DAYS
                 /\ \A e \in 1..(d - 1) : Weekday(analysis_datetime + Days(e)) \notin WORK_DAYS
         IN  analysis_datetime + Days(days_to_add)
    ELSE analysis_datetime

to_working_hours_same_day(analysis_datetime) ==
    IF Hour(analysis_datetime) < WORK_HOURS_START \/ Hour(analysis_datetime) >= WORK_HOURS_END
    THEN ReplaceHourMinute(analysis_datetime, WORK_HOURS_START, 0)
    ELSE analysis_datetime

\* lines 285-290
to_working_hours(analysis_datetime) ==
    IF Hour(analysis_datetime) < WORK_HOURS_START
    THEN ReplaceHourMinute(analysis_datetime, WORK_HOURS_START, 0)
    ELSE IF Hour(analysis_datetime) >= WORK_HOURS_END
    THEN ReplaceHourMinute(analysis_datetime, WORK_HOURS_START, 0) + Days(1)
    ELSE analysis_datetime

\* lines 277-290: the corrections of one loop iteration
corrected(analysis_datetime) == to_working_hours(to_working_day(analysis_datetime))

\* line 293-294, hours_diff <= ANALYSIS_MAX_HOURS, in minutes
within_limit(analysis_datetime, visit_datetime) ==
    analysis_datetime - visit_datetime <= Hours(ANALYSIS_MAX_HOURS)

analysis_max_attempts == 10

\* hours drawn at line 268 and at line 298
FirstOffsets == ANALYSIS_MIN_HOURS..ANALYSIS_MAX_HOURS
RedrawOffsets == ANALYSIS_MIN_HOURS..Min(60, ANALYSIS_MAX_HOURS)

\* generate_analysis_datetime as a function of the visit and of the hours drawn:
\* offsets[1] is the draw of line 268, the rest are the redraws of line 298
RECURSIVE analysis_loop(_, _, _, _)
analysis_loop(visit_datetime, analysis_datetime, attempts, redraws) ==
    IF attempts >= analysis_max_attempts THEN analysis_datetime
    ELSE LET c == corrected(analysis_datetime)
         IN  IF within_limit(c, visit_datetime) THEN c
             ELSE analysis_loop(visit_datetime, visit_datetime + Hours(Head(redraws)),
                                attempts + 1, Tail(redraws))

generate_analysis_datetime(visit_datetime, offsets) ==
    analysis_loop(visit_datetime, visit_datetime + Hours(Head(offsets)), 0, Tail(offsets))

(***************************************************************************)
(* Passports                                                               *)
(***************************************************************************)

\* re.match(r"^\d{4} \d{6}$", passport)
MatchRu(passport) ==
    LET p == BeforeFinalNewline(passport)
    IN  /\ Len(p) = 11
        /\ DecimalsAt(p, (1..4) \cup (6..11))
        /\ p[5] = " "

\* re.match(r"^[A-Z]{2}\d{7}$", passport)
MatchBy(passport) ==
    LET p == BeforeFinalNewline(passport)
    IN  /\ Len(p) = 9
        /\ p[1] \in UpperChars /\ p[2] \in UpperChars
        /\ DecimalsAt(p, 3..9)

\* re.match(r"^N\d{8}$", passport)
MatchKz(passport) ==
    LET p == BeforeFinalNewline(passport)
    IN  /\ Len(p) = 9
        /\ p[1] = "N"
        /\ DecimalsAt(p, 2..9)

\* src/dataset_generator.py:109-116
country_of_passport(passport) ==
    IF MatchRu(passport) THEN "ru"
    ELSE IF MatchBy(passport) THEN "by"
    ELSE IF MatchKz(passport) THEN "kz"
    ELSE "ru"

\* raise ValueError of src/utils.py:77, in the place of the returned string
UnsupportedCountry == <<"ValueError">>

\* generate_passport_number (src/utils.py:52-77) from its draws: series is the
\* randint of line 63 ("ru" only), prefix the random.choice of line 68 ("by" only),
\* number the randint of line 64, 69 or 73
generate_passport_number(country, series, prefix, number) ==
    IF country = "ru" THEN Str(series) \o <<" ">> \o Str(number)
    ELSE IF country = "by" THEN prefix \o Str(number)
    ELSE IF country = "kz" THEN <<"N">> \o Str(number)
    ELSE UnsupportedCountry

(***************************************************************************)
(* Calendar dates and the external form of a timestamp                     *)
(* (src/utils.py:305-315, 496-498; datetime.fromisoformat as called at     *)
(* src/validators.py:51,66 and src/utils.py:523-524)                       *)
(***************************************************************************)

\* TIMEZONE of config.py: the fixed offset suffix of a timestamp
TIMEZONE == <<"+">> \o DigitsStr(<<0, 3>>) \o <<":">> \o DigitsStr(<<0, 0>>)

\* the literal '+03:00' of src/validators.py:66
Plus0300 == <<"+">> \o DigitsStr(<<0, 3>>) \o <<":">> \o DigitsStr(<<0, 0>>)

\* the literal " руб." (src/utils.py:498, src/validators.py:361), each Cyrillic
\* letter written as the Latin letter that transliterates it
RubSuffix == <<" ", "r", "u", "b", ".">>

IsLeap(year) == year % 4 = 0 /\ (year % 100 # 0 \/ year % 400 = 0)

DaysInMonth(year, month) ==
    IF month = 2 THEN (IF IsLeap(year) THEN 29 ELSE 28)
    ELSE IF month \in {4, 6, 9, 11} THEN 30 ELSE 31

\* days of the year before the first of the month
RECURSIVE DaysBeforeMonth(_, _)
DaysBeforeMonth(year, month) ==
    IF month = 1 THEN 0
    ELSE DaysBeforeMonth(year, month - 1) + DaysInMonth(year, month - 1)

\* days before January 1st of the year (year 1 is 0)
DaysBeforeYear(year) ==
    LET y == year - 1 IN y * 365 + y \div 4 - y \div 100 + y \div 400

\* date.toordinal()
Ordinal(year, month, day) == DaysBeforeYear(year) + DaysBeforeMonth(year, month) + day

\* The Monday a model datetime counts its minutes from
EpochDate == [year |-> 2024, month |-> 1, day |-> 1]
EpochOrdinal == Ordinal(EpochDate.year, EpochDate.month, EpochDate.day)

\* date.fromordinal(n) for n >= 1
FromOrdinal(n) ==
    LET n400 == (n - 1) \div 146097
        r400 == (n - 1) % 146097
        n100 == r400 \div 36524
        r100 == r400 % 36524
        n4   == r100 \div 1461
        r4   == r100 % 1461
        n1   == r4 \div 365
        rest == r4 % 365
        year == n400 * 400 + n100 * 100 + n4 * 4 + n1 + 1
    IN  IF n1 = 4 \/ n100 = 4 THEN [year |-> year - 1, month |-> 12, day |-> 31]
        ELSE LET month == CHOOSE m \in 1..12 :
                              /\ DaysBeforeMonth(year, m) <= rest
                              /\ rest < DaysBeforeMonth(year, m) + DaysInMonth(year, m)
             IN  [year |-> year, month |-> month,
                  day |-> rest - DaysBeforeMonth(year, month) + 1]

\* f"{n:04d}" for 0 <= n <= 9999
Format04d(n) == <<Chr(n \div 1000), Chr((n \div 100) % 10), Chr((n \div 10) % 10), Chr(n % 10)>>

\* dt.strftime("%Y-%m-%dT%H:%M") + suffix
strftime_with_suffix(dt, suffix) ==
    LET date == FromOrdinal(EpochOrdinal + dt \div MinutesPerDay)
    IN  Format04d(date.year) \o <<"-">> \o Format02d(date.month) \o <<"-">>
            \o Format02d(date.day) \o <<"T">> \o Format02d(Hour(dt)) \o <<":">>
            \o Format02d(Minute(dt)) \o suffix

format_datetime_iso_no_offset(dt) == strftime_with_suffix(dt, <<>>)

\* src/utils.py:305-315
format_datetime_iso(dt) == strftime_with_suffix(dt, TIMEZONE)

\* src/utils.py:496-498, f"{cost} руб."
format_cost_string(cost) == Str(cost) \o RubSuffix

\* s.endswith(suffix)
EndsWith(s, suffix) ==
    Len(s) >= Len(suffix) /\ SubSeq(s, Len(s) - Len(suffix) + 1, Len(s)) = suffix

\* s.replace(old, "") for a non-empty old
RECURSIVE Remove(_, _)
Remove(s, old) ==
    IF Len(s) < Len(old) THEN s
    ELSE IF SubSeq(s, 1, Len(old)) = old THEN Remove(SubSeq(s, Len(old) + 1, Len(s)), old)
    ELSE <<Head(s)>> \o Remove(Tail(s), old)

(***************************************************************************)
(* datetime.fromisoformat of Python 3.11, as called at                     *)
(* src/validators.py:51,66 and src/utils.py:523-524.  The parser reads the *)
(* UTF-8 bytes of the string: only "0".."9" are digits, a character        *)
(* outside ASCII is several bytes long, and the byte after the last one is *)
(* NUL.  Indices are 0-based as in the parser.                             *)
(***************************************************************************)

\* the characters of one byte; a control character without an escape of its own
\* and the grave accent are named by their code points
AsciiChars ==
    {" ", "!", "\"", "#", "$", "%", "&", "'", "(", ")", "*", "+",
     ",", "-", ".", "/", "0", "1", "2", "3", "4", "5", "6", "7",
     "8", "9", ":", ";", "<", "=", ">", "?", "@", "A", "B", "C",
     "D", "E", "F", "G", "H", "I", "J", "K", "L", "M", "N", "O",
     "P", "Q", "R", "S", "T", "U", "V", "W", "X", "Y", "Z", "[",
     "\\", "]", "^", "_", "U+0060", "a", "b", "c", "d", "e", "f", "g",
     "h", "i", "j", "k", "l", "m", "n", "o", "p", "q", "r", "s",
     "t", "u", "v", "w", "x", "y", "z", "{", "|", "}", "~", "\t",
     "\n", "\r", "\f", "U+0000", "U+0001", "U+0002", "U+0003", "U+0004", "U+0005", "U+0006", "U+0007", "U+0008",
     "U+000B", "U+000E", "U+000F", "U+0010", "U+0011", "U+0012", "U+0013", "U+0014", "U+0015", "U+0016", "U+0017", "U+0018",
     "U+0019", "U+001A", "U+001B", "U+001C", "U+001D", "U+001E", "U+001F", "U+007F"}

IsAscii(c) == c \in AsciiChars

\* the byte after the end of a string
Nul == "U+0000"

\* the character at index i of s
At(s, i) == IF i + 1 \in DOMAIN s THEN s[i + 1] ELSE Nul

\* parse_digits succeeds: the n characters of s from index p are digits "0".."9"
HasDigits(s, p, n) == n > 0 /\ \A k \in p..(p + n - 1) : IsAsciiDigit(At(s, k))

\* the number parse_digits reads
DigitsValue(s, p, n) == ParseInt(SubSeq(s, p + 1, p + n))

\* the first index from p on that holds no digit "0".."9", p <= Len(s)
FirstNonDigit(s, p) ==
    CHOOSE k \in p..Len(s) :
        ~IsAsciiDigit(At(s, k)) /\ \A j \in p..(k - 1) : IsAsciiDigit(At(s, j))

\* the index at which the date part ends: 7, 8 or 10, or -1 for a week date cut short
find_isoformat_datetime_separator(s) ==
    IF Len(s) = 7 THEN 7
    ELSE IF At(s, 4) = "-"
    THEN IF At(s, 5) = "W"
         THEN IF Len(s) < 8 THEN -1
              ELSE IF Len(s) > 8 /\ At(s, 8) = "-"
              THEN IF Len(s) = 9 THEN -1
                   ELSE IF Len(s) > 10 /\ IsAsciiDigit(At(s, 10)) THEN 8
                   ELSE 10
              ELSE 8
         ELSE 10
    ELSE IF At(s, 4) = "W"
    THEN LET idx == FirstNonDigit(s, 7)
         IN  IF idx < 9 THEN idx ELSE IF idx % 2 = 0 THEN 7 ELSE 8
    ELSE 8

\* date.weekday(): Monday is 0
weekday(year, month, day) == (Ordinal(year, month, day) + 6) % 7

\* the ordinal of the Monday that starts ISO week 1 of the year
iso_week1_monday(year) ==
    LET first_day     == Ordinal(year, 1, 1)
        first_weekday == (first_day + 6) % 7
        week1_monday  == first_day - first_weekday
    IN  IF first_weekday > 3 THEN week1_monday + 7 ELSE week1_monday

\* a date, or the reason rv # 0 why there is none
ParsedDate(rv, year, month, day) == [rv |-> rv, year |-> year, month |-> month, day |-> day]

\* the date d with the return value 0
DateOf(d) == ParsedDate(0, d.year, d.month, d.day)

\* the day of an ISO week as a date of the calendar.  A week of the year 0000 lies
\* before date.min: what the conversion makes of it is no month of the calendar
\* (month 0 stands for it), and the constructor refuses it.
iso_to_ymd(iso_year, iso_week, iso_day) ==
    IF iso_year < 1 THEN ParsedDate(0, iso_year, 0, 0)
    ELSE IF /\ iso_week <= 0 \/ iso_week >= 53
            /\ ~(/\ iso_week = 53
                 /\ \/ weekday(iso_year, 1, 1) = 3
                    \/ weekday(iso_year, 1, 1) = 2 /\ IsLeap(iso_year))
    THEN ParsedDate(-2, 0, 0, 0)
    ELSE IF iso_day <= 0 \/ iso_day >= 8 THEN ParsedDate(-3, 0, 0, 0)
    ELSE DateOf(FromOrdinal(iso_week1_monday(iso_year) + (iso_week - 1) * 7 + iso_day - 1))

\* the week date after the year: "W" at index p, two digits of the week, and within
\* the first len characters the digit of the day, after "-" when the year had one
parse_week_date(s, len, year, uses_separator, p) ==
    LET q == IF uses_separator THEN p + 4 ELSE p + 3
    IN  IF ~HasDigits(s, p + 1, 2) THEN ParsedDate(-3, 0, 0, 0)
        ELSE IF p + 3 >= len THEN iso_to_ymd(year, DigitsValue(s, p + 1, 2), 1)
        ELSE IF uses_separator /\ At(s, p + 3) # "-" THEN ParsedDate(-2, 0, 0, 0)
        ELSE IF ~HasDigits(s, q, 1) THEN ParsedDate(-4, 0, 0, 0)
        ELSE iso_to_ymd(year, DigitsValue(s, p + 1, 2), DigitsValue(s, q, 1))

\* the month at index p and the day, after "-" when the year had one
parse_month_day(s, year, uses_separator, p) ==
    LET q == IF uses_separator THEN p + 3 ELSE p + 2
    IN  IF ~HasDigits(s, p, 2) THEN ParsedDate(-1, 0, 0, 0)
        ELSE IF uses_separator /\ At(s, p + 2) # "-" THEN ParsedDate(-2, 0, 0, 0)
        ELSE IF ~HasDigits(s, q, 2) THEN ParsedDate(-1, 0, 0, 0)
        ELSE ParsedDate(0, year, DigitsValue(s, p, 2), DigitsValue(s, q, 2))

\* the date part, the first len characters of s: YYYY-MM-DD, YYYYMMDD, YYYY-Www,
\* YYYYWww, YYYY-Www-D or YYYYWwwD
parse_isoformat_date(s, len) ==
    LET uses_separator == At(s, 4) = "-"
        p              == IF uses_separator THEN 5 ELSE 4
    IN  IF len < 0 \/ ~HasDigits(s, 0, 4) THEN ParsedDate(-1, 0, 0, 0)
        ELSE IF At(s, p) = "W"
        THEN parse_week_date(s, len, DigitsValue(s, 0, 4), uses_separator, p)
        ELSE parse_month_day(s, DigitsValue(s, 0, 4), uses_separator, p)

\* the i-th of the components read so far, 0 for one not read
Component(vals, i) == IF i \in DOMAIN vals THEN vals[i] ELSE 0

\* hour, minute, second and microsecond with the return value rv: 0 at the end of the
\* string, 1 when characters follow, negative when the text is not a time
ParsedTime(rv, vals) ==
    [rv |-> rv, hour |-> Component(vals, 1), minute |-> Component(vals, 2),
     second |-> Component(vals, 3), microsecond |-> Component(vals, 4)]

\* the factor that makes microseconds of a fraction of 1..6 digits
correction == <<100000, 10000, 1000, 100, 10, 1>>

\* the fraction of a second from index p: at most six digits count, further digits
\* are skipped
parse_fraction(s, p, p_end, vals) ==
    LET to_parse == Min(p_end - p, 6)
    IN  IF ~HasDigits(s, p, to_parse) THEN ParsedTime(-3, <<>>)
        ELSE ParsedTime(IF At(s, FirstNonDigit(s, p + to_parse)) # Nul THEN 1 ELSE 0,
                        <<Component(vals, 1), Component(vals, 2), Component(vals, 3),
                          DigitsValue(s, p, to_parse) * correction[to_parse]>>)

\* The i-th two-digit component (0 the hour) at index p of a text that ends before
\* p_end, and what follows it; c is the character after the component and read are
\* the components with it.  A character c of several bytes that lies before p_end is
\* neither the end nor a separator.  The next component starts after the ":" when
\* the hour was followed by one, and at c otherwise.
RECURSIVE parse_component(_, _, _, _, _, _)
after_component(s, p, p_end, i, sep, read) ==
    LET c == At(s, p + 2)
    IN  IF p + 2 >= p_end \/ (p + 3 >= p_end /\ IsAscii(c))
        THEN ParsedTime(IF c # Nul THEN 1 ELSE 0, read)
        ELSE IF ~IsAscii(c) THEN ParsedTime(IF sep THEN -4 ELSE -3, <<>>)
        ELSE IF c \in {".", ","} THEN parse_fraction(s, p + 3, p_end, read)
        ELSE IF sep /\ c # ":" THEN ParsedTime(-4, <<>>)
        ELSE IF i = 2
        THEN parse_fraction(s, IF sep THEN p + 3 ELSE p + 2, p_end, read)
        ELSE parse_component(s, IF sep THEN p + 3 ELSE p + 2, p_end, i + 1, sep, read)

parse_component(s, p, p_end, i, has_separator, vals) ==
    IF ~HasDigits(s, p, 2) THEN ParsedTime(-3, <<>>)
    ELSE after_component(s, p, p_end, i,
                         IF i = 0 THEN At(s, p + 2) = ":" ELSE has_separator,
                         Append(vals, DigitsValue(s, p, 2)))

\* HH[:MM[:SS[.ffffff]]] or HH[MM[SS[.ffffff]]] from index p up to p_end
parse_hh_mm_ss_ff(s, p, p_end) == parse_component(s, p, p_end, 0, TRUE, <<>>)

\* a time of day with the return value rv: 0 without an offset, 1 with the offset of
\* tzoffset seconds and tzmicrosecond microseconds, negative for no time
ParsedTimeOfDay(rv, t, tzoffset, tzmicrosecond) ==
    [rv |-> rv, hour |-> t.hour, minute |-> t.minute, second |-> t.second,
     microsecond |-> t.microsecond, tzoffset |-> tzoffset, tzmicrosecond |-> tzmicrosecond]

\* the index of the first "Z", "+" or "-" from index p on, Len(s) when there is none
tzinfo_pos_from(s, p) ==
    LET marks == {k \in p..(Len(s) - 1) : At(s, k) \in {"Z", "+", "-"}}
    IN  IF marks = {} THEN Len(s) ELSE CHOOSE k \in marks : \A j \in marks : k <= j

\* the time of day t with the offset tz read after the sign
with_offset(t, tzsign, tz) ==
    ParsedTimeOfDay(IF tz.rv # 0 THEN -5 ELSE 1, t,
                    tzsign * (tz.hour * 3600 + tz.minute * 60 + tz.second),
                    tzsign * tz.microsecond)

\* the time of day t, read up to tzinfo_pos, with what stands at tzinfo_pos: nothing,
\* "Z" as the last character, or a sign and an offset.  What parse_hh_mm_ss_ff left
\* unread before an offset is ignored.
time_and_offset(s, tzinfo_pos, t) ==
    IF t.rv < 0 THEN ParsedTimeOfDay(t.rv, t, 0, 0)
    ELSE IF tzinfo_pos = Len(s) THEN ParsedTimeOfDay(IF t.rv = 1 THEN -5 ELSE 0, t, 0, 0)
    ELSE IF At(s, tzinfo_pos) = "Z"
    THEN ParsedTimeOfDay(IF At(s, tzinfo_pos + 1) # Nul THEN -5 ELSE 1, t, 0, 0)
    ELSE with_offset(t, IF At(s, tzinfo_pos) = "-" THEN -1 ELSE 1,
                     parse_hh_mm_ss_ff(s, tzinfo_pos + 1, Len(s)))

\* the time part of s up to tzinfo_pos
time_before(s, p, tzinfo_pos) ==
    time_and_offset(s, tzinfo_pos, parse_hh_mm_ss_ff(s, p, tzinfo_pos))

\* the time part of s, from index p: the time of day runs up to the first "Z", "+"
\* or "-"
parse_isoformat_time(s, p) ==
    IF p >= Len(s) THEN ParsedTimeOfDay(-3, ParsedTime(-3, <<>>), 0, 0)
    ELSE time_before(s, p, tzinfo_pos_from(s, p))

\* datetime.fromisoformat(s) did not parse s
ValueError ==
    [ok |-> FALSE, year |-> 0, month |-> 0, day |-> 0, hour |-> 0, minute |-> 0,
     second |-> 0, microsecond |-> 0, aware |-> FALSE, utcoffset |-> 0,
     utcoffset_microseconds |-> 0]

\* datetime(year, month, day, hour, minute, second, microsecond), naive
datetime(year, month, day, hour, minute, second, microsecond) ==
    [ok |-> TRUE, year |-> year, month |-> month, day |-> day, hour |-> hour,
     minute |-> minute, second |-> second, microsecond |-> microsecond,
     aware |-> FALSE, utcoffset |-> 0, utcoffset_microseconds |-> 0]

\* the fields name a day of the calendar and a time of the day
InRange(date, time) ==
    /\ date.year \in 1..9999
    /\ date.month \in 1..12
    /\ date.day \in 1..DaysInMonth(date.year, date.month)
    /\ time.hour \in 0..23
    /\ time.minute \in 0..59
    /\ time.second \in 0..59

\* the datetime of a parsed date and a parsed time of day: utcoffset is in seconds,
\* with utcoffset_microseconds of the same sign; an offset of 0 seconds is UTC, and
\* an offset is strictly between -24 and 24 hours.  A result with an offset is aware.
new_datetime(date, time) ==
    IF date.rv # 0 \/ time.rv < 0 THEN ValueError
    ELSE IF ~InRange(date, time) THEN ValueError
    ELSE IF time.rv = 1 /\ (time.tzoffset <= -86400 \/ time.tzoffset >= 86400)
    THEN ValueError
    ELSE [ok          |-> TRUE,
          year        |-> date.year,
          month       |-> date.month,
          day         |-> date.day,
          hour        |-> time.hour,
          minute      |-> time.minute,
          second      |-> time.second,
          microsecond |-> time.microsecond,
          aware       |-> time.rv = 1,
          utcoffset   |-> IF time.rv = 1 THEN time.tzoffset ELSE 0,
          utcoffset_microseconds |->
              IF time.rv = 1 /\ time.tzoffset # 0 THEN time.tzmicrosecond ELSE 0]

\* the date part of s in front of separator_location, one character of any kind,
\* and the time part if s goes on
parse_at(s, separator_location) ==
    new_datetime(parse_isoformat_date(s, separator_location),
                 IF Len(s) > separator_location
                 THEN parse_isoformat_time(s, separator_location + 1)
                 ELSE ParsedTimeOfDay(0, ParsedTime(0, <<>>), 0, 0))

\* datetime.fromisoformat(s) for a str s
fromisoformat(s) ==
    IF Len(s) < 7 THEN ValueError ELSE parse_at(s, find_isoformat_datetime_separator(s))

\* A span of time as timedelta holds it, <<days, seconds, microseconds>> with
\* 0 <= seconds < 86400 and 0 <= microseconds < 1000000
timedelta(days, seconds, microseconds) ==
    LET s == seconds + microseconds \div 1000000
    IN  <<days + s \div 86400, s % 86400, microseconds % 1000000>>

\* a < b for two spans
Earlier(a, b) ==
    \/ a[1] < b[1]
    \/ a[1] = b[1] /\ a[2] < b[2]
    \/ a[1] = b[1] /\ a[2] = b[2] /\ a[3] < b[3]

\* a - b
Minus(a, b) == timedelta(a[1] - b[1], a[2] - b[2], a[3] - b[3])

\* timedelta(hours=h)
timedelta_hours(h) == timedelta(0, h * 3600, 0)

\* the span from 0001-01-01T00:00 (UTC for an aware datetime) to the datetime d:
\* what d1 < d2 and d1 - d2 compare and subtract
Instant(d) ==
    timedelta(Ordinal(d.year, d.month, d.day) - 1,
              d.hour * 3600 + d.minute * 60 + d.second - d.utcoffset,
              d.microsecond - d.utcoffset_microseconds)

\* datetime(1997, 10, 1)
NewPassportDate == datetime(1997, 10, 1, 0, 0, 0, 0)

(***************************************************************************)
(* Record validation (src/validators.py:9-99, 302-366) and the date rules  *)
(* (src/utils.py:501-536).  A record is a TLA+ record of its fields; a key *)
(* the dict lacks has the value Absent.  FIO is the sequence of its        *)
(* whitespace-separated tokens.  A country code is an atom; None and an    *)
(* int in that field are the atoms CountryNone and CountryInt.  An error   *)
(* message is named by a short tag.  A function that can raise returns     *)
(* [raised, errors].                                                       *)
(***************************************************************************)

CountryNone   == "<None>"
CountryInt    == "<int>"
CountryAbsent == "<absent>"

\* the value is a str: re.match and the str methods accept it
IsStr(x) == x # None /\ x # NotAString

\* bool(x) of None, an int other than 0, or a str
Bool(x) == x # None /\ x # <<>>

\* record.get(key, default)
record_get(record, key, default) ==
    IF key \notin DOMAIN record \/ record[key] = Absent THEN default ELSE record[key]

\* record.get("passport_country", "ru")
record_get_country(record) ==
    IF "passport_country" \notin DOMAIN record \/ record.passport_country = CountryAbsent
    THEN "ru" ELSE record.passport_country

Returned(errors) == [raised |-> FALSE, errors |-> errors]
Raised           == [raised |-> TRUE, errors |-> <<>>]

\* statement a, then statement b
Then(a, b) ==
    IF a.raised \/ b.raised THEN Raised ELSE Returned(a.errors \o b.errors)

\* re.match(r"^\d{3}-\d{3}$", code)
MatchDepartmentCode(passport_department_code) ==
    LET code == BeforeFinalNewline(passport_department_code)
    IN  Len(code) = 7 /\ DecimalsAt(code, {1, 2, 3, 5, 6, 7}) /\ code[4] = "-"

\* src/validators.py:35-47
department_code_errors(series, passport_department_code) ==
    IF ~Bool(passport_department_code) THEN Returned(<<>>)
    ELSE IF ~IsStr(passport_department_code) THEN Raised
    ELSE IF ~MatchDepartmentCode(passport_department_code)
    THEN Returned(<<"department_code_format">>)
    ELSE LET series_region == ParseInt(Slice(series, 0, 2))
             dept_region   == ParseInt(SubSeq(passport_department_code, 1, 3))
         IN  IF series_region # dept_region
             THEN Returned(<<"region_mismatch">>) ELSE Returned(<<>>)

\* issue_dt > visit_dt without an exception: visit_dt was parsed and both are naive or
\* both aware
Later(issue_dt, visit_dt) ==
    /\ visit_dt.ok
    /\ visit_dt.aware = issue_dt.aware
    /\ Earlier(Instant(visit_dt), Instant(issue_dt))

\* src/validators.py:64-70: the comparison with the visit; whatever it raises is
\* swallowed by the bare except
issue_after_visit(issue_dt, visit_date) ==
    /\ Bool(visit_date)
    /\ IsStr(visit_date)
    /\ Later(issue_dt, fromisoformat(Remove(visit_date, Plus0300)))

\* src/validators.py:53-75, issue_dt the outcome of line 53
issue_dt_errors(series, issue_dt, visit_date) ==
    IF ~issue_dt.ok THEN Returned(<<"issue_date_format">>)
    ELSE IF issue_dt.aware THEN Raised
    ELSE Returned(
           (IF Earlier(Instant(issue_dt), Instant(NewPassportDate))
            THEN <<"issue_before_1997">> ELSE <<>>)
           \o (IF ParseInt(Slice(series, 2, 4)) # issue_dt.year % 100
               THEN <<"series_year_mismatch">> ELSE <<>>)
           \o (IF issue_after_visit(issue_dt, visit_date)
               THEN <<"issue_after_visit">> ELSE <<>>))

\* src/validators.py:49-75
issue_date_errors(series, passport_issue_date, visit_date) ==
    IF ~Bool(passport_issue_date) THEN Returned(<<>>)
    ELSE IF ~IsStr(passport_issue_date) THEN Raised
    ELSE issue_dt_errors(series, fromisoformat(passport_issue_date), visit_date)

\* src/validators.py:9-77; is_valid is errors = <<>>
validate_passport_ru(passport_data, passport_issue_date, passport_department_code, visit_date) ==
    IF ~IsStr(passport_data) THEN Raised
    ELSE IF ~MatchRu(passport_data) THEN Returned(<<"passport_ru_format">>)
    ELSE Then(department_code_errors(Slice(passport_data, 0, 4), passport_department_code),
              issue_date_errors(Slice(passport_data, 0, 4), passport_issue_date,
                                visit_date))

\* src/validators.py:79-99
validate_passport_format(passport, country) ==
    IF country \notin {"ru", "by", "kz"} THEN Returned(<<"passport_format">>)
    ELSE IF ~IsStr(passport) THEN Raised
    ELSE IF \/ country = "ru" /\ MatchRu(passport)
            \/ country = "by" /\ MatchBy(passport)
            \/ country = "kz" /\ MatchKz(passport)
    THEN Returned(<<>>) ELSE Returned(<<"passport_format">>)

\* re.match(r"^\d{4}-\d{2}-\d{2}T\d{2}:\d{2}[+-]\d{2}:\d{2}$", datetime_str)
MatchIsoDatetime(datetime_str) ==
    LET s == BeforeFinalNewline(datetime_str)
    IN  /\ Len(s) = 22
        /\ DecimalsAt(s, {1, 2, 3, 4, 6, 7, 9, 10, 12, 13, 15, 16, 18, 19, 21, 22})
        /\ s[5] = "-" /\ s[8] = "-" /\ s[11] = "T" /\ s[14] = ":" /\ s[20] = ":"
        /\ s[17] \in {"+", "-"}

\* src/validators.py:174-186
validate_iso_datetime(datetime_str) ==
    IF ~IsStr(datetime_str) THEN Raised
    ELSE IF MatchIsoDatetime(datetime_str) THEN Returned(<<>>) ELSE Returned(<<"format">>)

\* src/validators.py:321-324
fio_errors(record) ==
    LET fio == record_get(record, "FIO", <<>>)
    IN  IF ~Bool(fio) THEN Returned(<<"fio">>)
        ELSE IF ~IsStr(fio) THEN Raised
        ELSE IF Len(fio) # 3 THEN Returned(<<"fio">>) ELSE Returned(<<>>)

\* src/validators.py:326-344
passport_errors(record) ==
    LET passport == record_get(record, "passport_data", <<>>)
        country  == record_get_country(record)
    IN  IF country = "ru"
        THEN validate_passport_ru(passport,
                                  record_get(record, "passport_issue_date", None),
                                  record_get(record, "passport_department_code", None),
                                  record_get(record, "visit_date", None))
        ELSE validate_passport_format(passport, country)

\* src/validators.py:339-344
snils_errors(record) ==
    LET snils == record_get(record, "SNILS", <<>>)
    IN  IF record_get_country(record) # "ru" \/ ~Bool(snils) THEN Returned(<<>>)
        ELSE IF ~IsStr(snils) THEN Raised
        ELSE IF validate_snils_format(snils) THEN Returned(<<>>) ELSE Returned(<<"snils">>)

\* src/validators.py:346-354
date_errors(record, key, tag) ==
    LET r == validate_iso_datetime(record_get(record, key, <<>>))
    IN  IF r.raised THEN Raised
        ELSE IF r.errors # <<>> THEN Returned(<<tag>>) ELSE Returned(<<>>)

\* src/validators.py:356-359
card_errors(record) ==
    LET card_number == record_get(record, "payment_card", <<>>)
    IN  IF ~IsStr(card_number) THEN Raised
        ELSE IF validate_card_number(card_number).raised THEN Raised
        ELSE IF validate_card_number(card_number).ret THEN Returned(<<>>)
        ELSE Returned(<<"payment_card">>)

\* src/validators.py:361-364
cost_errors(record) ==
    LET cost_str == record_get(record, "analysis_cost", <<>>)
    IN  IF ~IsStr(cost_str) THEN Raised
        ELSE IF EndsWith(cost_str, RubSuffix) THEN Returned(<<>>)
        ELSE Returned(<<"analysis_cost">>)

\* src/utils.py:526-530 for the outcomes of lines 523-524; a timestamp that was not
\* parsed, or a naive one compared with an aware one, is an exception
date_rule_errors(visit_dt, analysis_dt) ==
    IF ~visit_dt.ok \/ ~analysis_dt.ok \/ visit_dt.aware # analysis_dt.aware
    THEN <<"date_check_error">>
    ELSE (IF ~Earlier(Instant(visit_dt), Instant(analysis_dt))
          THEN <<"analysis_not_after_visit">> ELSE <<>>)
         \o (IF \/ Earlier(Minus(Instant(analysis_dt), Instant(visit_dt)),
                            timedelta_hours(ANALYSIS_MIN_HOURS))
                \/ Earlier(timedelta_hours(ANALYSIS_MAX_HOURS),
                           Minus(Instant(analysis_dt), Instant(visit_dt)))
             THEN <<"analysis_distance">> ELSE <<>>)

\* src/utils.py:501-536.  Never raises: every exception becomes an error.
validate_business_logic(record) ==
    LET visit_str    == record_get(record, "visit_date", <<>>)
        analysis_str == record_get(record, "analysis_date", <<>>)
    IN  IF ~(Bool(visit_str) /\ Bool(analysis_str)) THEN <<>>
        ELSE IF ~IsStr(visit_str) \/ ~IsStr(analysis_str) THEN <<"date_check_error">>
        ELSE date_rule_errors(fromisoformat(Remove(visit_str, TIMEZONE)),
                              fromisoformat(Remove(analysis_str, TIMEZONE)))

\* the timestamp checks of validate_record with the date rules added
timestamp_errors_with_distance(record) ==
    LET r == Then(date_errors(record, "visit_date", "visit_date"),
                  date_errors(record, "analysis_date", "analysis_date"))
    IN  IF r.raised THEN Raised
        ELSE Returned(r.errors \o validate_business_logic(record))

\* src/validators.py:346-354
timestamp_errors(record) ==
    Then(date_errors(record, "visit_date", "visit_date"),
         date_errors(record, "analysis_date", "analysis_date"))

\* DataValidator.validate_record, src/validators.py:302-366.
\* Returns [raised, is_valid, errors].
validate_record(record) ==
    LET r == Then(fio_errors(record),
             Then(passport_errors(record),
             Then(snils_errors(record),
             Then(timestamp_errors(record),
             Then(card_errors(record), cost_errors(record))))))
    IN  [raised |-> r.raised, is_valid |-> ~r.raised /\ r.errors = <<>>, errors |-> r.errors]

(***************************************************************************)
(* Values drawn in a generation run.  The run draws names, documents,      *)
(* SNILS digits and card digits from these samples; two of each are enough *)
(* for two clients or two cards to collide and to differ.                  *)
(***************************************************************************)

\* results of generate_slavic_fio: the three tokens of full_name, and gender
Fio1 == [fio |-> <<"Ivanov", "Ivan", "Ivanovich">>, gender |-> "M"]
Fio2 == [fio |-> <<"Petrova", "Anna", "Petrovna">>, gender |-> "F"]
FioSamples == {Fio1, Fio2}

Countries == {"ru", "by", "kz"}

\* a result of generate_passport_data_ru (not in src/utils.py): region 45, year 09
RuPassportData ==
    [passport_data            |-> DigitsStr(<<4, 5, 0, 9>>) \o <<" ">> \o DigitsStr(<<1, 2, 3, 4, 5, 6>>),
     passport_issue_date      |-> DigitsStr(<<2, 0, 0, 9>>) \o <<"-">> \o DigitsStr(<<0, 5>>)
                                      \o <<"-">> \o DigitsStr(<<2, 0>>),
     passport_department_code |-> DigitsStr(<<0, 4, 5>>) \o <<"-">> \o DigitsStr(<<0, 0, 1>>),
     birth_date               |-> DigitsStr(<<1, 9, 8, 9>>) \o <<"-">> \o DigitsStr(<<0, 5>>)
                                      \o <<"-">> \o DigitsStr(<<0, 1>>)]

\* a result of generate_passport_data_ru(visit_date) for the reference visit_date
\* Thursday 2024-01-04 that create_client draws at line 142: region 45, year 24,
\* issued on Wednesday 2024-01-03
RuPassportDataRecent ==
    [passport_data            |-> DigitsStr(<<4, 5, 2, 4>>) \o <<" ">> \o DigitsStr(<<6, 5, 4, 3, 2, 1>>),
     passport_issue_date      |-> DigitsStr(<<2, 0, 2, 4>>) \o <<"-">> \o DigitsStr(<<0, 1>>)
                                      \o <<"-">> \o DigitsStr(<<0, 3>>),
     passport_department_code |-> DigitsStr(<<0, 4, 5>>) \o <<"-">> \o DigitsStr(<<0, 0, 2>>),
     birth_date               |-> DigitsStr(<<2, 0, 0, 4>>) \o <<"-">> \o DigitsStr(<<0, 1>>)
                                      \o <<"-">> \o DigitsStr(<<0, 2>>)]

\* the long or short form document create_client generates for a country
\* (src/dataset_generator.py:140-154); passport_data_ru is the result of
\* generate_passport_data_ru
generated_passport(country, passport_data_ru) ==
    IF country = "ru" THEN passport_data_ru
    ELSE [passport_data            |-> IF country = "by"
                                       THEN generate_passport_number(country, 0, <<"A", "B">>, 1234567)
                                       ELSE generate_passport_number(country, 0, <<>>, 12345678),
          passport_issue_date      |-> None,
          passport_department_code |-> None,
          birth_date               |-> None]

\* digits drawn by generate_snils_number (weighted sums 1 and 100)
SnilsDigits1 == <<0, 0, 0, 0, 0, 0, 0, 0, 1>>
SnilsDigits2 == <<9, 0, 0, 0, 0, 0, 0, 9, 1>>
SnilsDigitSamples == {SnilsDigits1, SnilsDigits2}

\* results of generate_bank_card(): a BIN (BANK_BINS is in config.py) and 9 digits drawn
Card1 == generate_bank_card(DigitsStr(<<4, 0, 0, 0, 0, 0>>), <<0, 0, 0, 0, 0, 0, 0, 0, 0>>)
Card2 == generate_bank_card(DigitsStr(<<2, 2, 0, 2, 2, 0>>), <<1, 2, 3, 4, 5, 6, 7, 8, 9>>)
Card3 == generate_bank_card(DigitsStr(<<5, 4, 6, 9, 0, 1>>), <<9, 9, 9, 9, 9, 9, 9, 9, 9>>)
Cards == {Card1, Card2, Card3}

\* d times the hours h
RepeatHours(h, d) == [i \in 1..d |-> h]

\* results of generate_working_datetime with the hours generate_analysis_datetime
\* draws after it and the result of calculate_analysis_cost: Monday 09:00 and 24
\* hours; Thursday 17:45 and 72 hours, then 24 hours in every redraw
TimeSample1 ==
    [visit_datetime |-> Days(0) + Hours(9),
     offsets        |-> RepeatHours(24, analysis_max_attempts + 1),
     cost           |-> 1500,
     raises         |-> FALSE]
TimeSample2 ==
    [visit_datetime |-> Days(3) + Hours(17) + 45,
     offsets        |-> <<72>> \o RepeatHours(24, analysis_max_attempts),
     cost           |-> 800,
     raises         |-> FALSE]

\* an assembly in which a call of lines 218-227 raises
TimeSampleRaises == [TimeSample1 EXCEPT !.raises = TRUE]

\* records of a run of the model (the size argument of generate_dataset)
MaxRecords     == 52
MaxCardRecords == 18
MaxDatasetRecords == 6

\* The draws of a run with many clients and one card number: the pool reaches
\* min_pool_size entries
ClientSample ==
    [names |-> FioSamples, countries |-> Countries, snils_digits |-> SnilsDigitSamples,
     passports_ru |-> {RuPassportData},
     cards |-> {Card1}, size |-> MaxRecords, times |-> {TimeSample2}]

\* The draws of a run with one client and several card numbers
CardSample ==
    [names |-> {Fio1}, countries |-> {"ru"}, snils_digits |-> {SnilsDigits1},
     passports_ru |-> {RuPassportData},
     cards |-> Cards, size |-> MaxCardRecords, times |-> {TimeSample1}]

\* The draws of a short run in which the assembly of a record can raise, and in
\* which a document can be issued after the visit of the record (the visit of
\* TimeSample1 is Monday 2024-01-01)
DatasetSample ==
    [names |-> FioSamples, countries |-> {"ru", "kz"}, snils_digits |-> {SnilsDigits1},
     passports_ru |-> {RuPassportData, RuPassportDataRecent},
     cards |-> {Card1}, size |-> MaxDatasetRecords,
     times |-> {TimeSample1, TimeSampleRaises}]

(***************************************************************************)
(* DatasetGenerator (src/dataset_generator.py:61-288)                      *)
(*                                                                         *)
(* A generator g is [tracker, pool, stats].  clients_pool is a list that   *)
(* the code only appends to, measures with len() and samples with          *)
(* random.choice(); it is kept as the set of its distinct entries and its  *)
(* length.                                                                 *)
(***************************************************************************)

create_client_max_attempts == 100
card_max_attempts          == 50
min_pool_size              == 50

\* the draws of one iteration of the loop of create_client
AttemptDraws ==
    [name : sample.names, country : sample.countries, snils_digits : sample.snils_digits,
     passport_data_ru : sample.passports_ru]

existing_client_new_passport(tr, d, existing_passport) ==
    [fio      |-> d.name.fio,
     gender   |-> d.name.gender,
     passport |-> generated_passport(d.country, d.passport_data_ru).passport_data,
     country  |-> d.country,
     snils    |-> get_client_snils(tr, d.name.fio, existing_passport),
     passport_issue_date      |-> None,
     passport_department_code |-> None,
     birth_date               |-> None]

existing_client_new_snils(tr, d, existing_passport) ==
    [fio      |-> d.name.fio,
     gender   |-> d.name.gender,
     passport |-> existing_passport,
     country  |-> country_of_passport(existing_passport),
     snils    |-> generate_snils_number(d.snils_digits),
     passport_issue_date      |-> None,
     passport_department_code |-> None,
     birth_date               |-> None]

existing_client_drawn_country(tr, d, existing_passport) ==
    [fio      |-> d.name.fio,
     gender   |-> d.name.gender,
     passport |-> existing_passport,
     country  |-> d.country,
     snils    |-> get_client_snils(tr, d.name.fio, existing_passport),
     passport_issue_date      |-> None,
     passport_department_code |-> None,
     birth_date               |-> None]

\* lines 105-133: the client built for a name that already has a passport
existing_client(tr, d, existing_passport) ==
    [fio      |-> d.name.fio,
     gender   |-> d.name.gender,
     passport |-> existing_passport,
     country  |-> country_of_passport(existing_passport),
     snils    |-> get_client_snils(tr, d.name.fio, existing_passport),
     passport_issue_date      |-> None,
     passport_department_code |-> None,
     birth_date               |-> None]

new_client_snils_ru_only(d, pd) ==
    [fio      |-> d.name.fio,
     gender   |-> d.name.gender,
     passport |-> pd.passport_data,
     country  |-> d.country,
     snils    |-> IF d.country = "ru" THEN generate_snils_number(d.snils_digits) ELSE None,
     passport_issue_date      |-> pd.passport_issue_date,
     passport_department_code |-> pd.passport_department_code,
     birth_date               |-> pd.birth_date]

\* lines 161-170: the client built for a name registered just now
new_client(d, pd) ==
    [fio      |-> d.name.fio,
     gender   |-> d.name.gender,
     passport |-> pd.passport_data,
     country  |-> d.country,
     snils    |-> generate_snils_number(d.snils_digits),
     passport_issue_date      |-> pd.passport_issue_date,
     passport_department_code |-> pd.passport_department_code,
     birth_date               |-> pd.birth_date]

RECURSIVE create_client_loop_retry(_, _, _)
create_client_loop_retry(tr, attempts, draws) ==
    IF attempts >= create_client_max_attempts
    THEN [tr |-> tr, client |-> None, outcome |-> "raised", attempts |-> attempts]
    ELSE IF Len(draws) = 0
    THEN [tr |-> tr, client |-> None, outcome |-> "starved", attempts |-> attempts]
    ELSE LET d == Head(draws)
         IN  IF Truthy(get_fio_passport(tr, d.name.fio))
             THEN create_client_loop_retry(tr, attempts + 1, Tail(draws))
             ELSE LET pd     == generated_passport(d.country, d.passport_data_ru)
                      reg    == add_fio_passport(tr, d.name.fio, pd.passport_data)
                      client == new_client(d, pd)
                  IN  [tr       |-> add_client_snils(reg.tr, client.fio,
                                                     client.passport, client.snils).tr,
                       client   |-> client,
                       outcome  |-> "new",
                       attempts |-> attempts]

\* create_client, lines 96-180: draws[i] are the draws of the i-th iteration.
\* Returns [tr, client, outcome, attempts]: outcome is "existing" or "new" (a
\* return), "raised" (RuntimeError, line 180), "unsupported_country" (the
\* ValueError of generate_passport_number at line 151), or "starved" when draws is too
\* short; attempts is the value of the variable attempts at that point.
RECURSIVE create_client_loop(_, _, _)
create_client_loop(tr, attempts, draws) ==
    IF attempts >= create_client_max_attempts
    THEN [tr |-> tr, client |-> None, outcome |-> "raised", attempts |-> attempts]
    ELSE IF Len(draws) = 0
    THEN [tr |-> tr, client |-> None, outcome |-> "starved", attempts |-> attempts]
    ELSE LET d == Head(draws)
             existing_passport == get_fio_passport(tr, d.name.fio)
         IN  IF Truthy(existing_passport)
             THEN [tr       |-> tr,
                   client   |-> existing_client(tr, d, existing_passport),
                   outcome  |-> "existing",
                   attempts |-> attempts]
             ELSE LET pd  == generated_passport(d.country, d.passport_data_ru)
                      reg == add_fio_passport(tr, d.name.fio, pd.passport_data)
                  IN  IF pd.passport_data = UnsupportedCountry
                      THEN [tr |-> tr, client |-> None, outcome |-> "unsupported_country",
                            attempts |-> attempts]
                      ELSE IF reg.ret
                      THEN LET client == new_client(d, pd)
                           IN  [tr       |-> add_client_snils(reg.tr, client.fio,
                                                              client.passport, client.snils).tr,
                                client   |-> client,
                                outcome  |-> "new",
                                attempts |-> attempts]
                      ELSE create_client_loop(reg.tr, attempts + 1, Tail(draws))

create_client(tr, draws) == create_client_loop(tr, 0, draws)

\* DatasetGenerator.__init__, lines 71-87
NewGenerator ==
    [tracker |-> NewTracker,
     pool    |-> [entries |-> {}, size |-> 0],
     stats   |-> [new_clients |-> 0, repeat_visits |-> 0, validation_errors |-> 0]]

\* select_client, lines 191-205.  repeat_draw is random.random() < repeat_probability,
\* pick the result of random.choice(clients_pool), draws the draws of create_client.
\* Returns [g, client, outcome]: "repeat", or the outcome of create_client.
select_client_any_pool(g, repeat_draw, pick, draws) ==
    IF g.pool.size > 0 /\ repeat_draw
    THEN [g       |-> [g EXCEPT !.stats.repeat_visits = @ + 1],
          client  |-> pick,
          outcome |-> "repeat"]
    ELSE LET made == create_client(g.tracker, draws)
         IN  [g       |-> [g EXCEPT !.tracker = made.tr,
                                     !.pool = [entries |-> @.entries \cup {made.client},
                                               size    |-> @.size + 1],
                                     !.stats.new_clients = @ + 1],
               client  |-> made.client,
               outcome |-> made.outcome]

select_client(g, repeat_draw, pick, draws) ==
    IF g.pool.size > 0 /\ repeat_draw /\ g.pool.size >= min_pool_size
    THEN [g       |-> [g EXCEPT !.stats.repeat_visits = @ + 1],
          client  |-> pick,
          outcome |-> "repeat"]
    ELSE LET made == create_client(g.tracker, draws)
         IN  IF made.outcome \in {"raised", "unsupported_country", "starved"}
             THEN [g |-> [g EXCEPT !.tracker = made.tr], client |-> None,
                   outcome |-> made.outcome]
             ELSE [g       |-> [g EXCEPT !.tracker = made.tr,
                                         !.pool = [entries |-> @.entries \cup {made.client},
                                                   size    |-> @.size + 1],
                                         !.stats.new_clients = @ + 1],
                   client  |-> made.client,
                   outcome |-> made.outcome]

new_card_loop_unchecked(tr, attempts, card_draws) ==
    IF Len(card_draws) = 0
    THEN [tr |-> tr, card_number |-> None, path |-> "starved", attempts |-> 0,
          counted |-> FALSE]
    ELSE [tr |-> use_card(tr, card_draws[1]).tr, card_number |-> card_draws[1],
          path |-> "new", attempts |-> 0, counted |-> use_card(tr, card_draws[1]).ret]

RECURSIVE new_card_loop_extra_attempt(_, _, _)
new_card_loop_extra_attempt(tr, attempts, card_draws) ==
    IF Len(card_draws) <= attempts
    THEN [tr |-> tr, card_number |-> None, path |-> "starved", attempts |-> attempts,
          counted |-> FALSE]
    ELSE LET card_number == card_draws[attempts + 1]
         IN  IF attempts <= card_max_attempts
             THEN IF can_use_card(tr, card_number, CARD_REUSE_LIMIT)
                  THEN [tr |-> use_card(tr, card_number).tr, card_number |-> card_number,
                        path |-> "new", attempts |-> attempts,
                        counted |-> use_card(tr, card_number).ret]
                  ELSE new_card_loop_extra_attempt(tr, attempts + 1, card_draws)
             ELSE [tr |-> use_card(tr, card_number).tr, card_number |-> card_number,
                   path |-> "forced", attempts |-> attempts,
                   counted |-> use_card(tr, card_number).ret]

\* lines 255-266: the while loop and its else branch; card_draws[i] is the i-th
\* result of generate_bank_card().  Returns [tr, card_number, path, attempts, counted]:
\* counted is the return value of use_card, path is "starved" when card_draws is
\* too short.
RECURSIVE new_card_loop(_, _, _)
new_card_loop(tr, attempts, card_draws) ==
    IF Len(card_draws) <= attempts
    THEN [tr |-> tr, card_number |-> None, path |-> "starved", attempts |-> attempts,
          counted |-> FALSE]
    ELSE LET card_number == card_draws[attempts + 1]
         IN  IF attempts < card_max_attempts
             THEN IF can_use_card(tr, card_number, CARD_REUSE_LIMIT)
                  THEN [tr |-> use_card(tr, card_number).tr, card_number |-> card_number,
                        path |-> "new", attempts |-> attempts,
                        counted |-> use_card(tr, card_number).ret]
                  ELSE new_card_loop(tr, attempts + 1, card_draws)
             ELSE [tr |-> use_card(tr, card_number).tr, card_number |-> card_number,
                   path |-> "forced", attempts |-> attempts,
                   counted |-> use_card(tr, card_number).ret]

\* lines 241-245: the cards of card_usage that can_use_card accepts
available_cards(tr) ==
    {card \in DOMAIN tr.card_usage : can_use_card(tr, card, CARD_REUSE_LIMIT)}

\* lines 236-266.  reuse_draw is random.random() < 0.4, reuse_pick the result of
\* random.choice(available_cards).
select_card(tr, reuse_draw, reuse_pick, card_draws) ==
    IF DOMAIN tr.card_usage # {} /\ reuse_draw /\ available_cards(tr) # {}
    THEN LET used == use_card(tr, reuse_pick)
         IN  [tr |-> used.tr, card_number |-> reuse_pick, path |-> "reuse",
              attempts |-> 0, counted |-> used.ret]
    ELSE new_card_loop(tr, 0, card_draws)

\* lines 269-286, the fields of the record that come from the client
identity_fields(client) ==
    [FIO              |-> client.fio,
     passport_data    |-> client.passport,
     passport_country |-> client.country,
     SNILS            |-> IF Truthy(client.snils) THEN client.snils ELSE <<>>,
     passport_issue_date      |-> IF client.country = "ru"
                                  THEN client.passport_issue_date ELSE Absent,
     passport_department_code |-> IF client.country = "ru"
                                  THEN client.passport_department_code ELSE Absent]

\* lines 269-286, the record without symptoms, doctor_choice and analyses, which
\* validate_record does not read
visit_record(client, visit_datetime, analysis_datetime, cost, card_number) ==
    [FIO              |-> client.fio,
     passport_data    |-> client.passport,
     passport_country |-> client.country,
     SNILS            |-> IF Truthy(client.snils) THEN client.snils ELSE <<>>,
     visit_date       |-> format_datetime_iso(visit_datetime),
     analysis_date    |-> format_datetime_iso(analysis_datetime),
     analysis_cost    |-> format_cost_string(cost),
     payment_card     |-> card_number,
     passport_issue_date      |-> IF client.country = "ru"
                                  THEN client.passport_issue_date ELSE Absent,
     passport_department_code |-> IF client.country = "ru"
                                  THEN client.passport_department_code ELSE Absent]

\* generate_visit_record, lines 214-288, without the doctor, symptoms and analyses,
\* which neither read nor write the generator.  times is [visit_datetime, offsets,
\* cost]: the result of generate_working_datetime, the hours drawn by
\* generate_analysis_datetime and the result of calculate_analysis_cost.
\* times.raises says that one of select_doctor_by_gender, generate_symptoms_by_doctor
\* and generate_analyses_by_doctor_new (lines 218-227, not in src/utils.py) raises.
\* Returns [g, record, client, client_outcome, card, raised]; record is None when
\* select_client or one of these raised.
generate_visit_record(g, repeat_draw, pick, draws, times, reuse_draw, reuse_pick, card_draws) ==
    LET sel == select_client(g, repeat_draw, pick, draws)
    IN  IF sel.outcome \in {"raised", "unsupported_country", "starved"}
        THEN [g |-> sel.g, record |-> None, client |-> None,
              client_outcome |-> sel.outcome, card |-> None,
              raised |-> sel.outcome # "starved"]
        ELSE IF times.raises
        THEN [g |-> sel.g, record |-> None, client |-> None,
              client_outcome |-> sel.outcome, card |-> None, raised |-> TRUE]
        ELSE LET card == select_card(sel.g.tracker, reuse_draw, reuse_pick, card_draws)
             IN  [g              |-> [sel.g EXCEPT !.tracker = card.tr],
                  record         |-> visit_record(sel.client, times.visit_datetime,
                                                   generate_analysis_datetime(
                                                       times.visit_datetime, times.offsets),
                                                   times.cost, card.card_number),
                  client         |-> sel.client,
                  client_outcome |-> sel.outcome,
                  card           |-> card,
                  raised         |-> FALSE]

(***************************************************************************)
(* Specification Spec: one generation run.  generate_dataset                *)
(* (src/dataset_generator.py:306-335) calls generate_visit_record once per  *)
(* iteration and appends the record.                                        *)
(***************************************************************************)

NoCall == [op |-> "none"]
NoFn   == [pc |-> "idle"]

\* generate_dataset before its loop (line 303): no iteration done, the list of
\* records empty.  card_records counts the appended records of each card number,
\* forced_cards are the card numbers of records of the forced fallback.
EmptyDataset ==
    [iterations |-> 0, size |-> 0, rows |-> {}, card_records |-> <<>>, forced_cards |-> {}]

Generator ==
    [tracker |-> uniqueness_tracker, pool |-> clients_pool, stats |-> stats]

Init ==
    /\ uniqueness_tracker = NewGenerator.tracker
    /\ clients_pool = NewGenerator.pool
    /\ stats = NewGenerator.stats
    /\ dataset = EmptyDataset
    /\ card_paths = {}
    /\ sample = ClientSample
    /\ call = NoCall
    /\ fn = NoFn

\* The draws select_client reads in generator g.  The country and SNILS draws of
\* an iteration of create_client are read only for a name without a passport, the
\* result of generate_passport_data_ru only for the country "ru", and pick only
\* in the repeat branch.
ClientInputs(g) ==
    LET read == {d \in AttemptDraws :
                    \/ /\ ~Truthy(get_fio_passport(g.tracker, d.name.fio))
                       /\ d.country = "ru" \/ d.passport_data_ru = RuPassportData
                    \/ /\ d.country = "ru"
                       /\ d.snils_digits = SnilsDigits1
                       /\ d.passport_data_ru = RuPassportData}
    IN  {[repeat_draw |-> TRUE, pick |-> p, draws |-> <<>>] :
            p \in IF g.pool.size >= min_pool_size THEN g.pool.entries ELSE {}}
        \cup
        {[repeat_draw |-> b,
          pick        |-> IF g.pool.size > 0 THEN CHOOSE e \in g.pool.entries : TRUE ELSE None,
          draws       |-> <<d>>] :
            b \in IF g.pool.size >= min_pool_size THEN {FALSE} ELSE BOOLEAN, d \in read}

\* k times the card c
Repeat(c, k) == [i \in 1..k |-> c]

\* The results of generate_bank_card() the card loop reads with tracker tr: an
\* accepted card after no or one rejected card, or any card after card_max_attempts
\* rejected cards
CardDrawSeqs(tr) ==
    LET rejected == {c \in sample.cards : ~can_use_card(tr, c, CARD_REUSE_LIMIT)}
    IN  {Repeat(x, k) \o <<c>> : x \in rejected, c \in sample.cards \ rejected, k \in {0, 1}}
        \cup {<<c>> : c \in sample.cards \ rejected}
        \cup {Repeat(x, card_max_attempts) \o <<c>> : x \in rejected, c \in sample.cards}

\* The draws select_card reads with tracker tr
CardInputs(tr) ==
    {[reuse_draw |-> TRUE, reuse_pick |-> c, card_draws |-> <<>>] : c \in available_cards(tr)}
    \cup
    {[reuse_draw |-> b, reuse_pick |-> None, card_draws |-> s] :
        b \in IF available_cards(tr) = {} THEN BOOLEAN ELSE {FALSE}, s \in CardDrawSeqs(tr)}

generate_dataset_abort(ds, r, checked, size) ==
    IF r.raised \/ checked.raised
    THEN [ds EXCEPT !.iterations = size]
    ELSE [iterations   |-> ds.iterations + 1,
          size         |-> ds.size + 1,
          rows         |-> ds.rows \cup {identity_fields(r.client)},
          card_records |-> Put(ds.card_records, r.card.card_number,
                               Get(ds.card_records, r.card.card_number, 0) + 1),
          forced_cards |-> ds.forced_cards
                            \cup IF r.card.path = "forced" THEN {r.card.card_number} ELSE {}]

generate_dataset_drop_flagged(ds, r, checked, size) ==
    IF r.raised \/ checked.raised \/ checked.errors # <<>>
    THEN [ds EXCEPT !.iterations = @ + 1]
    ELSE [iterations   |-> ds.iterations + 1,
          size         |-> ds.size + 1,
          rows         |-> ds.rows \cup {identity_fields(r.client)},
          card_records |-> Put(ds.card_records, r.card.card_number,
                               Get(ds.card_records, r.card.card_number, 0) + 1),
          forced_cards |-> ds.forced_cards
                            \cup IF r.card.path = "forced" THEN {r.card.card_number} ELSE {}]

\* lines 313-334, the list of records after one iteration of the loop: r is the
\* outcome of generate_visit_record, checked the outcome of validate_record, size
\* the size argument.  An exception of either skips the record (lines 331-334),
\* otherwise the record is appended whatever its errors (line 329).
generate_dataset_iteration(ds, r, checked, size) ==
    IF r.raised \/ checked.raised
    THEN [ds EXCEPT !.iterations = @ + 1]
    ELSE [iterations   |-> ds.iterations + 1,
          size         |-> ds.size + 1,
          rows         |-> ds.rows \cup {identity_fields(r.client)},
          card_records |-> Put(ds.card_records, r.card.card_number,
                               Get(ds.card_records, r.card.card_number, 0) + 1),
          forced_cards |-> ds.forced_cards
                            \cup IF r.card.path = "forced" THEN {r.card.card_number} ELSE {}]

\* no record reached validate_record
NotValidated == [raised |-> FALSE, is_valid |-> FALSE, errors |-> <<>>]

\* lines 318-326 for the outcome r of generate_visit_record: the outcome of
\* validate_record, and the list validate_business_logic returns, None when the
\* call of line 324 is not reached
business_checked(record, checked) ==
    [checked  |-> checked,
     business |-> IF checked.raised THEN None ELSE validate_business_logic(record)]

checked_record(r) ==
    IF r.raised \/ r.client_outcome = "starved"
    THEN [checked |-> NotValidated, business |-> None]
    ELSE business_checked(r.record, validate_record(r.record))

\* one iteration of the loop of generate_dataset, lines 313-334: the record is
\* generated, validated (lines 318-321), checked by validate_business_logic
\* (lines 324-326) and appended (line 329); an exception skips the record
\* (lines 331-334)
GenerateVisitRecord ==
    /\ dataset.iterations < sample.size
    /\ \E ci \in ClientInputs(Generator) : \E ki \in CardInputs(uniqueness_tracker) :
       \E times \in sample.times :
        \E r \in {generate_visit_record(Generator, ci.repeat_draw, ci.pick, ci.draws, times,
                                       ki.reuse_draw, ki.reuse_pick, ki.card_draws)} :
         \E c \in {checked_record(r)} :
            /\ r.client_outcome # "starved"
            /\ uniqueness_tracker' = r.g.tracker
            /\ clients_pool' = r.g.pool
            /\ dataset' = generate_dataset_iteration(dataset, r, c.checked, sample.size)
            /\ IF r.raised \/ c.checked.raised
               THEN /\ stats' = r.g.stats
                    /\ call' = [op |-> "generate_visit_record",
                                client_outcome |-> r.client_outcome, client |-> None,
                                checked |-> c.checked, business |-> c.business,
                                raised |-> TRUE]
                    /\ UNCHANGED card_paths
               ELSE /\ r.card.path # "starved"
                    /\ stats' = [r.g.stats EXCEPT
                                   !.validation_errors = @ + Len(c.checked.errors)]
                    /\ call' = [op |-> "generate_visit_record",
                                client_outcome |-> r.client_outcome, client |-> r.client,
                                checked |-> c.checked, business |-> c.business,
                                raised |-> FALSE]
                    /\ card_paths' = card_paths \cup {[path     |-> r.card.path,
                                                          counted  |-> r.card.counted,
                                                          attempts |-> r.card.attempts]}
    /\ UNCHANGED <<sample, fn>>

Next == GenerateVisitRecord

Spec == Init /\ [][Next]_vars

\* the same run with the draws of CardSample
InitCards ==
    /\ uniqueness_tracker = NewGenerator.tracker
    /\ clients_pool = NewGenerator.pool
    /\ stats = NewGenerator.stats
    /\ dataset = EmptyDataset
    /\ card_paths = {}
    /\ sample = CardSample
    /\ call = NoCall
    /\ fn = NoFn

SpecCards == InitCards /\ [][Next]_vars

\* the same run with the draws of DatasetSample
InitDataset ==
    /\ uniqueness_tracker = NewGenerator.tracker
    /\ clients_pool = NewGenerator.pool
    /\ stats = NewGenerator.stats
    /\ dataset = EmptyDataset
    /\ card_paths = {}
    /\ sample = DatasetSample
    /\ call = NoCall
    /\ fn = NoFn

SpecDataset == InitDataset /\ [][Next]_vars

(***************************************************************************)
(* Specifications of the pure functions: Init draws the inputs, the action *)
(* applies the function.                                                   *)
(***************************************************************************)

\* the generator is not used by the runs below
NoRun ==
    /\ uniqueness_tracker = NewGenerator.tracker
    /\ clients_pool = NewGenerator.pool
    /\ stats = NewGenerator.stats
    /\ dataset = EmptyDataset
    /\ card_paths = {}
    /\ sample = CardSample
    /\ call = NoCall

RunVars == <<uniqueness_tracker, clients_pool, stats, dataset, card_paths, sample, call>>

\* number of drawn digits that range over all of 0..9; the digits before them are
\* drawn from PadDigits
FreeDigits == 2
PadDigits  == {0, 9}

\* sequences of n drawn digits
DrawnDigits(n) ==
    {pad \o free : pad \in [1..(n - FreeDigits) -> PadDigits], free \in [1..FreeDigits -> Digit]}

\* BIN codes (BANK_BINS is in config.py): six digits each
BinSamples ==
    {DigitsStr(<<4, 0, 0, 0, 0, 0>>), DigitsStr(<<2, 2, 0, 2, 2, 0>>)}

InitSnils ==
    /\ NoRun
    /\ fn \in {[pc |-> "snils", digits |-> d] : d \in DrawnDigits(9)}

GenerateSnils ==
    /\ fn.pc = "snils"
    /\ fn' = [pc |-> "snils_done", digits |-> fn.digits,
              snils |-> generate_snils_number(fn.digits)]
    /\ UNCHANGED RunVars

SpecSnils == InitSnils /\ [][GenerateSnils]_vars

InitBankCard ==
    /\ NoRun
    /\ fn \in {[pc |-> "card", bin_code |-> b, remaining |-> d] :
                  b \in BinSamples, d \in DrawnDigits(9)}

GenerateBankCard ==
    /\ fn.pc = "card"
    /\ fn' = [pc |-> "card_done", bin_code |-> fn.bin_code, remaining |-> fn.remaining,
              check_digits |-> CheckDigits(fn.bin_code \o DigitsStr(fn.remaining)),
              card_number  |-> generate_bank_card(fn.bin_code, fn.remaining)]
    /\ UNCHANGED RunVars

SpecBankCard == InitBankCard /\ [][GenerateBankCard]_vars

\* generate_analysis_datetime, one loop iteration per step: the state after line 273
InitAnalysis ==
    /\ NoRun
    /\ fn \in {[pc |-> "loop", visit_datetime |-> v,
                analysis_datetime |-> v + Hours(h), attempts |-> 0] :
                  v \in WorkingDatetimes, h \in FirstOffsets}

\* lines 275-300: one iteration, which breaks or redraws
AnalysisIteration ==
    /\ fn.pc = "loop"
    /\ LET c == corrected(fn.analysis_datetime)
       IN  IF within_limit(c, fn.visit_datetime)
           THEN fn' = [fn EXCEPT !.pc = "return", !.analysis_datetime = c]
           ELSE \E h \in RedrawOffsets :
                   fn' = [fn EXCEPT !.analysis_datetime = fn.visit_datetime + Hours(h),
                                    !.attempts = @ + 1,
                                    !.pc = IF fn.attempts + 1 < analysis_max_attempts
                                           THEN "loop" ELSE "return"]
    /\ UNCHANGED RunVars

SpecAnalysis == InitAnalysis /\ [][AnalysisIteration]_vars

\* create_client called once: the tracker is one that zero, one or two calls of
\* create_client leave behind, draws are the draws of its first iterations
CreateClientDraws == {<<d>> : d \in AttemptDraws} \cup {<<d, e>> : d, e \in AttemptDraws}

CreateClientTrackers ==
    LET once == {create_client(NewTracker, <<d>>).tr : d \in AttemptDraws}
    IN  {NewTracker} \cup once
            \cup {create_client(tr, <<d>>).tr : tr \in once, d \in AttemptDraws}

InitCreateClient ==
    /\ clients_pool = NewGenerator.pool
    /\ stats = NewGenerator.stats
    /\ dataset = EmptyDataset
    /\ card_paths = {}
    /\ sample = ClientSample
    /\ call = NoCall
    /\ uniqueness_tracker \in CreateClientTrackers
    /\ fn \in {[pc |-> "create_client", tracker |-> uniqueness_tracker, draws |-> draws] :
                  draws \in CreateClientDraws}

CreateClient ==
    /\ fn.pc = "create_client"
    /\ \E made \in {create_client(uniqueness_tracker, fn.draws)} :
        /\ made.outcome # "starved"
        /\ uniqueness_tracker' = made.tr
        /\ fn' = [pc |-> "created", tracker |-> fn.tracker, draws |-> fn.draws,
                  outcome |-> made.outcome, client |-> made.client,
                  attempts |-> made.attempts]
    /\ UNCHANGED <<clients_pool, stats, dataset, card_paths, sample, call>>

SpecCreateClient == InitCreateClient /\ [][CreateClient]_vars

(***************************************************************************)
(* Specification SpecValidate: validate_record and validate_business_logic *)
(* applied to one record.  The record is a record in the shape             *)
(* generate_visit_record builds, with one field replaced: by None, by a    *)
(* value that is not a string, by the empty string, by no key at all, or   *)
(* by another string.                                                      *)
(***************************************************************************)

\* the visit of the records: Thursday 17:45
SampleVisit == Days(3) + Hours(17) + 45

\* the record generate_visit_record builds for a new client of the country, with
\* the analysis 24 hours after the visit
SampleRecord(country) ==
    visit_record(new_client([name |-> Fio1, country |-> country,
                             snils_digits |-> SnilsDigits1,
                             passport_data_ru |-> RuPassportData],
                            generated_passport(country, RuPassportData)),
                 SampleVisit, SampleVisit + Hours(24), 1500, Card1)

\* the record of a "ru" client found registered: no issue date, no office code
ShortRuRecord ==
    [SampleRecord("ru") EXCEPT !.passport_issue_date = None,
                               !.passport_department_code = None]

BaseRecords == {SampleRecord(c) : c \in Countries} \cup {ShortRuRecord}

\* a string that has none of the formats
BadString == <<"b", "a", "d">>

\* None, an int, "", no key
NoValues == {None, NotAString, <<>>, Absent}

\* a date "YYYY-MM-DD"
IsoDate(year, month, day) ==
    Format04d(year) \o <<"-">> \o Format02d(month) \o <<"-">> \o Format02d(day)

\* minutes between a visit_date and an analysis_date of the model
AnalysisDistances ==
    {0 - Hours(24), 0, Hours(1), Hours(ANALYSIS_MIN_HOURS) - 15, Hours(ANALYSIS_MIN_HOURS),
     Hours(ANALYSIS_MAX_HOURS), Hours(ANALYSIS_MAX_HOURS) + 15}

\* the values a field is replaced by
FieldSamples(key) ==
    IF key = "passport_country"
    THEN {"ru", "by", "kz", "xx", "", CountryNone, CountryInt, CountryAbsent}
    ELSE NoValues \cup {BadString} \cup
        CASE key = "FIO" -> {Fio2.fio, <<"Ivanov", "Ivan">>}
          [] key = "passport_data" ->
                {generated_passport(c, RuPassportData).passport_data : c \in Countries}
          [] key = "SNILS" ->
                {generate_snils_number(SnilsDigits2),
                 Slice(generate_snils_number(SnilsDigits1), 0, 12) \o DigitsStr(<<0, 2>>)}
          [] key = "visit_date" ->
                {format_datetime_iso(SampleVisit + Days(7)),
                 format_datetime_iso_no_offset(SampleVisit),
                 strftime_with_suffix(SampleVisit, <<"-">> \o Slice(TIMEZONE, 1, 6)),
                 IsoDate(2024, 13, 45) \o <<"T", "9", "9", ":", "9", "9">> \o TIMEZONE}
          [] key = "analysis_date" ->
                {format_datetime_iso(SampleVisit + d) : d \in AnalysisDistances}
                \cup {format_datetime_iso_no_offset(SampleVisit + Hours(1)),
                      strftime_with_suffix(SampleVisit + Hours(1),
                                           <<"-">> \o Slice(TIMEZONE, 1, 6))}
          [] key = "analysis_cost" -> {Str(1500), RubSuffix}
          [] key = "payment_card" -> {Card2, Slice(Card1, 0, 18) \o <<"1">>}
          [] key = "passport_issue_date" ->
                {IsoDate(1996, 5, 20), IsoDate(2010, 5, 20), IsoDate(2009, 13, 20),
                 IsoDate(2009, 2, 29), IsoDate(2109, 5, 20),
                 IsoDate(2009, 5, 20) \o <<"T", "1", "0", ":", "0", "0">>,
                 IsoDate(2009, 5, 20) \o <<"T", "1", "0", ":", "0", "0">> \o TIMEZONE}
          [] key = "passport_department_code" ->
                {DigitsStr(<<0, 7, 7>>) \o <<"-">> \o DigitsStr(<<0, 0, 1>>),
                 DigitsStr(<<4, 5>>) \o <<"-">> \o DigitsStr(<<0, 0, 1>>)}

RecordKeys ==
    {"FIO", "passport_data", "passport_country", "SNILS", "visit_date", "analysis_date",
     "analysis_cost", "payment_card", "passport_issue_date", "passport_department_code"}

\* the records given to validate_record
ValidateRecords ==
    UNION {{[b EXCEPT ![key] = v] : b \in BaseRecords, v \in FieldSamples(key)} :
              key \in RecordKeys}

InitValidate ==
    /\ uniqueness_tracker = NewGenerator.tracker
    /\ clients_pool = NewGenerator.pool
    /\ stats = NewGenerator.stats
    /\ dataset = EmptyDataset
    /\ card_paths = {}
    /\ sample = ClientSample
    /\ call = NoCall
    /\ fn \in {[pc |-> "validate_record", record |-> r] : r \in ValidateRecords}

\* Lines 318-326 for a record: validate_record(record), its errors added to
\* stats['validation_errors'] (line 321), then validate_business_logic(record)
\* (line 324).  When validate_record raises, neither line 321 nor line 324 is
\* reached: stats is unchanged and business is None.
ValidateRecord ==
    /\ fn.pc = "validate_record"
    /\ IF validate_record(fn.record).raised
       THEN /\ fn' = [pc       |-> "raised",
                      record   |-> fn.record,
                      result   |-> validate_record(fn.record),
                      business |-> None]
            /\ UNCHANGED stats
       ELSE /\ fn' = [pc       |-> "validated",
                      record   |-> fn.record,
                      result   |-> validate_record(fn.record),
                      business |-> validate_business_logic(fn.record)]
            /\ stats' = [stats EXCEPT
                           !.validation_errors = @ + Len(validate_record(fn.record).errors)]
    /\ UNCHANGED <<uniqueness_tracker, clients_pool, dataset, card_paths, sample, call>>

SpecValidate == InitValidate /\ [][ValidateRecord]_vars

(***************************************************************************)
(* Probability selection (src/utils.py:111-126, 325-345).  A distribution  *)
(* is the sequence of the (category, probability) items of the mapping, in *)
(* mapping order.  A probability p stands for the float literal            *)
(* p / ProbabilityScale of config.py, the draw rand for the float          *)
(* rand / ProbabilityScale returned by random.random().                    *)
(*                                                                         *)
(* Python floats are IEEE 754 binary64.  A float x with 0 <= x < 4 is the  *)
(* sequence of the FloatWidth bits of x * 2^FractionBits, most significant *)
(* first: two bits before the binary point and FractionBits after it.      *)
(***************************************************************************)

ProbabilityScale == 20

\* significant bits of a binary64 value
binary64_precision == 53

\* bits kept after the binary point: a probability or a sum of probabilities has
\* its last significant bit within the first binary64_precision + 5 of them
FractionBits == binary64_precision + 11
FloatWidth   == FractionBits + 2

\* 2^k modulo d
RECURSIVE Pow2Mod(_, _)
Pow2Mod(k, d) ==
    IF k = 0 THEN 1 % d
    ELSE IF k % 2 = 0 THEN (Pow2Mod(k \div 2, d) * Pow2Mod(k \div 2, d)) % d
    ELSE (2 * Pow2Mod(k - 1, d)) % d

\* what is left of r / d after the first k bits after the binary point, for r < d
RemainderAfter(r, d, k) == (r * Pow2Mod(k, d)) % d

\* the k-th bit after the binary point of r / d, for r < d
QuotientBit(r, d, k) == (2 * RemainderAfter(r, d, k - 1)) \div d

\* the sequence of the bits bit[1], ..., bit[FloatWidth]
BitSeq(bit) == SubSeq(bit, 1, FloatWidth)

\* the bits of n / d cut after FractionBits bits, for n < 4 * d
ExactBits(n, d) ==
    BitSeq([i \in 1..FloatWidth |-> IF i = 1 THEN (n \div d) \div 2
                                    ELSE IF i = 2 THEN (n \div d) % 2
                                    ELSE QuotientBit(n % d, d, i - 2)])

\* the position of the first bit set, 0 when there is none
LeadingOne(bits) ==
    IF \A i \in 1..FloatWidth : bits[i] = 0 THEN 0
    ELSE CHOOSE i \in 1..FloatWidth : bits[i] = 1 /\ \A j \in 1..(i - 1) : bits[j] = 0

\* the bits up to the position last, the others cleared
Truncate(bits, last) == BitSeq([i \in 1..FloatWidth |-> IF i <= last THEN bits[i] ELSE 0])

\* the position of the last bit cleared at or before the position last
LastZero(bits, last) ==
    CHOOSE j \in 1..last : bits[j] = 0 /\ \A k \in (j + 1)..last : bits[k] = 1

\* bits plus one unit of the position last, for bits cleared after last
Increment(bits, last) ==
    BitSeq([i \in 1..FloatWidth |-> IF i = LastZero(bits, last) THEN 1
                                    ELSE IF i > LastZero(bits, last) THEN 0
                                    ELSE bits[i]])

\* Rounding to the nearest value whose last bit is at the position last, ties to
\* the even one; sticky says that the exact value has more bits below
round_half_even(bits, sticky, last) ==
    IF last >= FloatWidth THEN bits
    ELSE IF /\ bits[last + 1] = 1
            /\ \/ sticky
               \/ \E i \in (last + 2)..FloatWidth : bits[i] = 1
               \/ bits[last] = 1
    THEN Increment(Truncate(bits, last), last)
    ELSE Truncate(bits, last)

\* the binary64 value nearest to an exact value: binary64_precision significant bits
binary64_round(bits, sticky) ==
    IF LeadingOne(bits) = 0 THEN bits
    ELSE round_half_even(bits, sticky, LeadingOne(bits) + binary64_precision - 1)

\* the float of the literal n / d
binary64(n, d) == binary64_round(ExactBits(n, d), RemainderAfter(n % d, d, FractionBits) # 0)

\* the carry into the position i of the sum of a and b: a position below i
\* where both bits are set, and exactly one bit set at each position between
carry_into(a, b, i) ==
    IF \E j \in (i + 1)..FloatWidth :
           a[j] + b[j] = 2 /\ \A k \in (i + 1)..(j - 1) : a[k] + b[k] = 1
    THEN 1 ELSE 0

\* the exact sum of two values below 2
add_bits(a, b) ==
    BitSeq([i \in 1..FloatWidth |-> (a[i] + b[i] + carry_into(a, b, i)) % 2])

\* a + b of two floats (line 122: cumulative += prob)
float_add(a, b) == binary64_round(add_bits(a, b), FALSE)

\* a < b and a <= b of two floats (line 123: rand <= cumulative)
float_lt(a, b) ==
    \E i \in 1..FloatWidth : a[i] < b[i] /\ \A j \in 1..(i - 1) : a[j] = b[j]

float_le(a, b) == a = b \/ float_lt(a, b)

RECURSIVE select_by_probability_strict(_, _, _, _)
select_by_probability_strict(distribution, rand, cumulative, default) ==
    IF Len(distribution) = 0 THEN default
    ELSE IF float_lt(binary64(rand, ProbabilityScale),
                     float_add(cumulative,
                               binary64(Head(distribution).prob, ProbabilityScale)))
    THEN Head(distribution).category
    ELSE select_by_probability_strict(
             Tail(distribution), rand,
             float_add(cumulative, binary64(Head(distribution).prob, ProbabilityScale)),
             default)

\* the for loop of lines 121-124 (329-333, 340-344): cumulative is the float
\* accumulated so far, default the value left when no category is selected
RECURSIVE select_by_probability(_, _, _, _)
select_by_probability(distribution, rand, cumulative, default) ==
    IF Len(distribution) = 0 THEN default
    ELSE IF float_le(binary64(rand, ProbabilityScale),
                     float_add(cumulative,
                               binary64(Head(distribution).prob, ProbabilityScale)))
    THEN Head(distribution).category
    ELSE select_by_probability(
             Tail(distribution), rand,
             float_add(cumulative, binary64(Head(distribution).prob, ProbabilityScale)),
             default)

\* src/utils.py:111-126
select_country_by_probability(distribution, rand) ==
    select_by_probability(distribution, rand, binary64(0, 1), "ru")

\* src/utils.py:325-333
select_bank(distribution, rand) ==
    select_by_probability(distribution, rand, binary64(0, 1), "sberbank")

\* src/utils.py:336-344
select_payment_system(distribution, rand) ==
    select_by_probability(distribution, rand, binary64(0, 1), "mir")

\* the selection named by kind
select_category(kind, distribution, rand) ==
    IF kind = "country" THEN select_country_by_probability(distribution, rand)
    ELSE IF kind = "bank" THEN select_bank(distribution, rand)
    ELSE select_payment_system(distribution, rand)

\* the categories of the three mappings of config.py, in mapping order
CategoryNames ==
    [country |-> <<"ru", "by", "kz">>,
     bank    |-> <<"sberbank", "vtb", "alfabank">>,
     system  |-> <<"mir", "visa", "mastercard">>]

\* probabilities of three categories: summing to the scale, falling short of it,
\* with a category of probability 0 first, and with all the mass on the first
ProbabilitySamples ==
    {<<ProbabilityScale - 6, 4, 2>>, <<ProbabilityScale - 8, 4, 2>>,
     <<0, ProbabilityScale - 5, 4>>, <<ProbabilityScale, 0, 0>>}

Distribution(kind, probs) ==
    [i \in 1..3 |-> [category |-> CategoryNames[kind][i], prob |-> probs[i]]]

\* random.random() returns a multiple of 2^-53 in [0, 1) (line 118): the draws
\* whose float is one
RandomDraws ==
    {r \in 0..(ProbabilityScale - 1) :
        \A i \in (binary64_precision + 3)..FloatWidth : binary64(r, ProbabilityScale)[i] = 0}

InitSelect ==
    /\ NoRun
    /\ fn \in {[pc |-> "select", kind |-> k, distribution |-> Distribution(k, p),
                rand |-> r] :
                  k \in DOMAIN CategoryNames, p \in ProbabilitySamples, r \in RandomDraws}

SelectByProbability ==
    /\ fn.pc = "select"
    /\ fn' = [pc |-> "selected", kind |-> fn.kind, distribution |-> fn.distribution,
              rand |-> fn.rand,
              selected |-> select_category(fn.kind, fn.distribution, fn.rand)]
    /\ UNCHANGED RunVars

SpecSelect == InitSelect /\ [][SelectByProbability]_vars

(***************************************************************************)
(* Specification SpecRetry: the three retry loops of the assembly of a     *)
(* record, one loop iteration per step, every iteration with any draw.     *)
(* The code is sequential (one thread, no suspension), so an iteration     *)
(* that can be made is made: weak fairness of the step.                    *)
(***************************************************************************)

\* a tracker in which card_number has reached the reuse limit
CardAtLimit(card_number) ==
    [NewTracker EXCEPT !.card_usage = Put(<<>>, card_number, CARD_REUSE_LIMIT)]

\* trackers at the start of a loop: new, with one name registered, with one card
\* number at the reuse limit
RetryTrackers ==
    {NewTracker} \cup {create_client(NewTracker, <<d>>).tr : d \in AttemptDraws}
        \cup {CardAtLimit(c) : c \in Cards}

\* visits from which the corrected analysis can exceed ANALYSIS_MAX_HOURS or not
RetryVisits == {Days(0) + Hours(9), Days(3) + Hours(17) + 45, Days(4) + Hours(17) + 45}

\* the state at the head of each loop: attempts = 0 (dataset_generator.py:98 and
\* 254, utils.py:272); the analysis loop starts after the draw of line 268
InitRetry ==
    /\ clients_pool = NewGenerator.pool
    /\ stats = NewGenerator.stats
    /\ dataset = EmptyDataset
    /\ card_paths = {}
    /\ sample = [ClientSample EXCEPT !.cards = Cards]
    /\ call = NoCall
    /\ uniqueness_tracker \in RetryTrackers
    /\ fn \in {[loop |-> l, pc |-> "loop", attempts |-> 0, visit_datetime |-> 0,
                analysis_datetime |-> 0] : l \in {"create_client", "new_card"}}
              \cup {[loop |-> "analysis", pc |-> "loop", attempts |-> 0,
                     visit_datetime |-> v, analysis_datetime |-> v + Hours(h)] :
                       v \in RetryVisits, h \in FirstOffsets}

\* dataset_generator.py:100-178, one iteration of the while loop of create_client
\* with the draws d, or the raise of line 180 when the loop has ended
CreateClientIteration ==
    /\ fn.loop = "create_client" /\ fn.pc = "loop"
    /\ \E d \in AttemptDraws :
        \E made \in {create_client_loop(uniqueness_tracker, fn.attempts, <<d>>)} :
            /\ uniqueness_tracker' = made.tr
            /\ fn' = [fn EXCEPT !.attempts = made.attempts,
                                !.pc = IF made.outcome = "starved" THEN "loop"
                                       ELSE IF made.outcome \in {"raised", "unsupported_country"}
                                       THEN "raise"
                                       ELSE "return"]
    /\ UNCHANGED <<clients_pool, stats, dataset, card_paths, sample, call>>

\* dataset_generator.py:255-266, one iteration of the while loop of the new card
\* with the card generate_bank_card() returns, or the else branch of the loop
NewCardIteration ==
    /\ fn.loop = "new_card" /\ fn.pc = "loop"
    /\ \E card_number \in sample.cards :
        \E r \in {new_card_loop(uniqueness_tracker, fn.attempts,
                                Repeat(card_number, fn.attempts + 1))} :
            /\ uniqueness_tracker' = r.tr
            /\ fn' = [fn EXCEPT !.attempts = r.attempts,
                                !.pc = IF r.path = "starved" THEN "loop" ELSE r.path]
    /\ UNCHANGED <<clients_pool, stats, dataset, card_paths, sample, call>>

\* utils.py:275-300, one iteration of the loop of generate_analysis_datetime
AnalysisRetryIteration ==
    /\ fn.loop = "analysis"
    /\ AnalysisIteration

NextRetry ==
    \/ CreateClientIteration
    \/ NewCardIteration
    \/ AnalysisRetryIteration

SpecRetry == InitRetry /\ [][NextRetry]_vars /\ WF_vars(NextRetry)

(***************************************************************************)
(* Specification SpecTracker: the methods of a UniquenessTracker called    *)
(* directly, in any order, with any arguments.  call records the last call.*)
(***************************************************************************)

TrackerFios      == {Fio1.fio, Fio2.fio}
TrackerPassports ==
    {generated_passport("ru", RuPassportData).passport_data,
     generated_passport("by", RuPassportData).passport_data}
TrackerSnils     == {generate_snils_number(d) : d \in SnilsDigitSamples}
TrackerClients ==
    {<<Fio1.fio, generated_passport("ru", RuPassportData).passport_data>>,
     <<Fio2.fio, generated_passport("by", RuPassportData).passport_data>>}
TrackerCards     == {Card1, Card2}
TrackerLimits    == 0..(DefaultLimit + 1)

NoGenerator ==
    /\ clients_pool = NewGenerator.pool
    /\ stats = NewGenerator.stats
    /\ dataset = EmptyDataset
    /\ card_paths = {}
    /\ sample = CardSample
    /\ fn = NoFn

GeneratorVars == <<clients_pool, stats, dataset, card_paths, sample, fn>>

InitTracker ==
    /\ uniqueness_tracker = NewTracker
    /\ call = NoCall
    /\ NoGenerator

CallAddFioPassport ==
    /\ \E fio \in TrackerFios, passport \in TrackerPassports :
        \E r \in {add_fio_passport(uniqueness_tracker, fio, passport)} :
            /\ uniqueness_tracker' = r.tr
            /\ call' = [op |-> "add_fio_passport", fio |-> fio, passport |-> passport,
                        ret |-> r.ret]
    /\ UNCHANGED GeneratorVars

\* add_passport called directly (src/validators.py:239-244)
CallAddPassport ==
    /\ \E passport \in TrackerPassports :
        \E r \in {add_passport(uniqueness_tracker, passport)} :
            /\ uniqueness_tracker' = r.tr
            /\ call' = [op |-> "add_passport", passport |-> passport, ret |-> r.ret]
    /\ UNCHANGED GeneratorVars

CallAddClientSnils ==
    /\ \E client \in TrackerClients, snils \in TrackerSnils :
        \E r \in {add_client_snils(uniqueness_tracker, client[1], client[2], snils)} :
            /\ uniqueness_tracker' = r.tr
            /\ call' = [op |-> "add_client_snils", fio |-> client[1], passport |-> client[2],
                        snils |-> snils, ret |-> r.ret]
    /\ UNCHANGED GeneratorVars

CallCanUseCard ==
    /\ \E card \in TrackerCards, limit \in TrackerLimits :
        /\ call' = [op |-> "can_use_card", card |-> card, limit |-> limit,
                    ret |-> can_use_card(uniqueness_tracker, card, limit)]
    /\ UNCHANGED uniqueness_tracker
    /\ UNCHANGED GeneratorVars

CallUseCard ==
    /\ \E card \in TrackerCards :
        \E r \in {use_card(uniqueness_tracker, card)} :
            /\ uniqueness_tracker' = r.tr
            /\ call' = [op |-> "use_card", card |-> card, ret |-> r.ret]
    /\ UNCHANGED GeneratorVars

NextTracker ==
    \/ CallAddPassport
    \/ CallAddFioPassport
    \/ CallAddClientSnils
    \/ CallCanUseCard
    \/ CallUseCard

SpecTracker == InitTracker /\ [][NextTracker]_vars

(***************************************************************************)
(* Properties                                                              *)
(***************************************************************************)

usage_count(tr, card_number) ==
    IF card_number \in DOMAIN tr.card_usage THEN tr.card_usage[card_number] ELSE 0

\* C1 (SpecCards): in every state of a generation run, every card of card_usage
\* has been counted at most CARD_REUSE_LIMIT times, whichever branch of the card
\* selection (reuse, new card, forced fallback) the records went through.
C1_UsageWithinReuseLimit ==
    \A card \in DOMAIN uniqueness_tracker.card_usage :
        uniqueness_tracker.card_usage[card] <= CARD_REUSE_LIMIT

\* the forced fallback has handed out a card that use_card refused to count,
\* after the reuse and new-card branches were taken
C1_ForcedFallbackAtLimit ==
    /\ \E p \in card_paths : p.path = "forced" /\ ~p.counted
    /\ \E p \in card_paths : p.path = "reuse" /\ p.counted
    /\ \E p \in card_paths : p.path = "new" /\ p.counted
    /\ \A card \in sample.cards : usage_count(uniqueness_tracker, card) = CARD_REUSE_LIMIT

\* C2 (Spec): any two records of one run with the same FIO carry the same
\* passport_data, and it is the passport fio_to_passport holds for that name.
C2_SameFioSamePassport ==
    /\ \A a, b \in dataset.rows : a.FIO = b.FIO => a.passport_data = b.passport_data
    /\ \A a \in dataset.rows :
        /\ a.FIO \in DOMAIN uniqueness_tracker.fio_to_passport
        /\ uniqueness_tracker.fio_to_passport[a.FIO] = a.passport_data

\* a name has a record from the new-client branch, one from the
\* name-already-registered branch and a repeat visit, while another name holds
\* another passport
C2_NameSeenAgain ==
    /\ stats.repeat_visits > 0
    /\ \E a, b \in dataset.rows :
        /\ a.FIO = b.FIO
        /\ a.passport_issue_date # None
        /\ b.passport_issue_date = None
    /\ \E a, b \in dataset.rows : a.passport_data # b.passport_data

\* C3 (Spec): any two records of one run with the same (FIO, passport_data) pair
\* carry the same SNILS, records of the name-already-registered branch included.
C3_SameClientSameSnils ==
    \A a, b \in dataset.rows :
        (a.FIO = b.FIO /\ a.passport_data = b.passport_data) => a.SNILS = b.SNILS

\* a client has a record from the new-client branch and one from the
\* name-already-registered branch, and two clients have different SNILS
C3_ClientSeenAgain ==
    /\ \E a, b \in dataset.rows :
        /\ a.FIO = b.FIO
        /\ a.passport_data = b.passport_data
        /\ a.passport_country = "ru"
        /\ a.passport_issue_date # None
        /\ b.passport_issue_date = None
        /\ Len(b.SNILS) = 14
    /\ \E a, b \in dataset.rows : a.SNILS # b.SNILS

\* C4 (SpecAnalysis): for a visit in the working window, the timestamp
\* generate_analysis_datetime returns is at least ANALYSIS_MIN_HOURS and at most
\* ANALYSIS_MAX_HOURS hours after the visit, whatever hours are drawn and whether
\* the loop ends by break or after its 10 attempts.
C4_AnalysisWithinHours ==
    fn.pc = "return" =>
        /\ fn.analysis_datetime - fn.visit_datetime >= Hours(ANALYSIS_MIN_HOURS)
        /\ fn.analysis_datetime - fn.visit_datetime <= Hours(ANALYSIS_MAX_HOURS)

\* the loop has used up its attempts and returns the last redraw
C4_ReturnAfterExhaustion ==
    /\ fn.pc = "return"
    /\ fn.attempts = analysis_max_attempts
    /\ fn.visit_datetime \in WorkingDatetimes

\* C5 (SpecAnalysis): for a visit in the working window, the timestamp
\* generate_analysis_datetime returns is on a day of WORK_DAYS with its hour in
\* [WORK_HOURS_START, WORK_HOURS_END), after the end-of-day correction and after
\* the attempts are used up as well.
C5_AnalysisInWorkingWindow ==
    fn.pc = "return" =>
        /\ Weekday(fn.analysis_datetime) \in WORK_DAYS
        /\ Hour(fn.analysis_datetime) >= WORK_HOURS_START
        /\ Hour(fn.analysis_datetime) < WORK_HOURS_END

\* C6 (SpecBankCard): for a 6-digit BIN and 9 drawn digits generate_bank_card
\* finds a check digit in 0..9 (the else branch that appends "0" is not taken), the
\* 16 digits have Luhn checksum 0 and validate_card_number accepts the formatted
\* number.
C6_CheckDigitFound ==
    fn.pc = "card_done" =>
        LET card_clean == Without(fn.card_number, " ")
        IN  /\ fn.check_digits # {}
            /\ fn.check_digits \subseteq Digit
            /\ Len(card_clean) = 16
            /\ Slice(card_clean, 0, 15) = fn.bin_code \o DigitsStr(fn.remaining)
            /\ Ord(card_clean[16]) \in fn.check_digits
            /\ LuhnTotal(Reversed(card_clean), 0) % 10 = 0
            /\ validate_card_number(fn.card_number).ret

\* a card whose check digit is not the "0" of the else branch
C6_NonZeroCheckDigit ==
    /\ fn.pc = "card_done"
    /\ fn.card_number[19] \notin {"0"}
    /\ fn.check_digits # {}

\* the weighted sum S of C7, written out
C7_S(d) ==
    d[1] * 9 + d[2] * 8 + d[3] * 7 + d[4] * 6 + d[5] * 5 + d[6] * 4 + d[7] * 3 + d[8] * 2 + d[9]

\* the suffix C7 states for the weighted sum S
C7_Suffix(S) ==
    IF S < 100 THEN S
    ELSE IF S = 100 \/ S = 101 THEN 0
    ELSE IF S % 101 = 100 THEN 0 ELSE S % 101

\* C7 (SpecSnils): for 9 digits d0..d8 with S = sum(d_i * (9 - i)),
\* generate_snils_number emits the two-digit suffix S if S < 100, 0 if S is 100 or
\* 101, otherwise S mod 101 with 100 mapped to 0 (S = 100 gives "00", S = 250 gives
\* "48"); the suffix is in 0..99 and validate_snils_format accepts the result.
C7_SnilsSuffixRule ==
    fn.pc = "snils_done" =>
        LET S      == C7_S(fn.digits)
            suffix == Slice(fn.snils, 12, 14)
        IN  /\ Len(fn.snils) = 14
            /\ IsDigitStr(suffix)
            /\ ParseInt(suffix) = C7_Suffix(S)
            /\ ParseInt(suffix) \in 0..99
            /\ (S = 100 => suffix = <<"0", "0">>)
            /\ (S = 250 => suffix = <<"4", "8">>)
            /\ validate_snils_format(fn.snils)

\* digits whose weighted sum is 100, with the suffix "00"
C7_SumIsHundred ==
    /\ fn.pc = "snils_done"
    /\ C7_S(fn.digits) = 100
    /\ Slice(fn.snils, 12, 14) = <<"0", "0">>

\* C8 (SpecTracker): use_card(card) adds exactly 1 to the card's usage_count and
\* returns TRUE if and only if can_use_card(card, CARD_REUSE_LIMIT) is TRUE when
\* it is called; otherwise it returns FALSE and leaves card_usage unchanged.
\* can_use_card(card, limit) is TRUE iff the card's count (0 for a card not in
\* card_usage) is below limit, and it changes nothing.
C8_UseCardContract ==
    [][/\ call'.op = "use_card" =>
            IF usage_count(uniqueness_tracker, call'.card) < CARD_REUSE_LIMIT
            THEN /\ call'.ret = TRUE
                 /\ usage_count(uniqueness_tracker', call'.card)
                        = usage_count(uniqueness_tracker, call'.card) + 1
                 /\ \A card \in TrackerCards \ {call'.card} :
                        usage_count(uniqueness_tracker', card)
                            = usage_count(uniqueness_tracker, card)
                 /\ DOMAIN uniqueness_tracker'.card_usage
                        = DOMAIN uniqueness_tracker.card_usage \cup {call'.card}
            ELSE /\ call'.ret = FALSE
                 /\ uniqueness_tracker'.card_usage = uniqueness_tracker.card_usage
       /\ call'.op = "can_use_card" =>
            /\ call'.ret = (usage_count(uniqueness_tracker, call'.card) < call'.limit)
            /\ uniqueness_tracker' = uniqueness_tracker]_vars

\* use_card has refused a card that is at the limit, while another card is
\* below it
C8_UseCardRefused ==
    /\ call.op = "use_card"
    /\ call.ret = FALSE
    /\ usage_count(uniqueness_tracker, call.card) = CARD_REUSE_LIMIT
    /\ \E card \in TrackerCards :
        /\ usage_count(uniqueness_tracker, card) > 0
        /\ usage_count(uniqueness_tracker, card) < CARD_REUSE_LIMIT

\* C9 (SpecTracker): add_fio_passport(fio, passport) returns TRUE, sets
\* fio_to_passport[fio] to passport and adds passport to passports only when fio
\* has no passport yet; for a registered fio it returns FALSE and leaves
\* fio_to_passport, passports, snils_by_client and card_usage unchanged.
C9_AddFioPassportFrame ==
    [][call'.op = "add_fio_passport" =>
        IF call'.fio \notin DOMAIN uniqueness_tracker.fio_to_passport
        THEN /\ call'.ret = TRUE
             /\ call'.fio \in DOMAIN uniqueness_tracker'.fio_to_passport
             /\ uniqueness_tracker'.fio_to_passport[call'.fio] = call'.passport
             /\ call'.passport \in uniqueness_tracker'.passports
        ELSE /\ call'.ret = FALSE
             /\ uniqueness_tracker'.fio_to_passport = uniqueness_tracker.fio_to_passport
             /\ uniqueness_tracker'.passports = uniqueness_tracker.passports
             /\ uniqueness_tracker'.snils_by_client = uniqueness_tracker.snils_by_client
             /\ uniqueness_tracker'.card_usage = uniqueness_tracker.card_usage]_vars

\* add_fio_passport has refused another passport for a registered name, with
\* SNILS and cards on record
C9_SecondPassportRefused ==
    /\ call.op = "add_fio_passport"
    /\ call.ret = FALSE
    /\ uniqueness_tracker.fio_to_passport[call.fio] # call.passport
    /\ call.passport \notin uniqueness_tracker.passports
    /\ uniqueness_tracker.snils_by_client # <<>>
    /\ uniqueness_tracker.card_usage # <<>>

\* C10 (SpecTracker): add_client_snils(fio, passport, snils) returns TRUE and
\* stores snils under (fio, passport) only when the pair has no SNILS yet;
\* otherwise it returns FALSE and the SNILS stored for the pair stays as it was.
C10_AddClientSnilsNoOverwrite ==
    [][call'.op = "add_client_snils" =>
        LET client_key == <<call'.fio, call'.passport>>
        IN  IF client_key \notin DOMAIN uniqueness_tracker.snils_by_client
            THEN /\ call'.ret = TRUE
                 /\ client_key \in DOMAIN uniqueness_tracker'.snils_by_client
                 /\ uniqueness_tracker'.snils_by_client[client_key] = call'.snils
            ELSE /\ call'.ret = FALSE
                 /\ client_key \in DOMAIN uniqueness_tracker'.snils_by_client
                 /\ uniqueness_tracker'.snils_by_client[client_key]
                        = uniqueness_tracker.snils_by_client[client_key]]_vars

\* add_client_snils has refused another SNILS for a pair that has one
C10_SecondSnilsRefused ==
    /\ call.op = "add_client_snils"
    /\ call.ret = FALSE
    /\ uniqueness_tracker.snils_by_client[<<call.fio, call.passport>>] # call.snils

\* C11 (SpecCards): a card number is carried by more than CARD_REUSE_LIMIT
\* appended records only if one of its records came from the forced fallback, and
\* the forced fallback is entered only after card_max_attempts (50) generated
\* cards in a row were rejected by can_use_card(card, CARD_REUSE_LIMIT).
C11_OverLimitOnlyByForcedFallback ==
    /\ \A card \in DOMAIN dataset.card_records :
        dataset.card_records[card] > CARD_REUSE_LIMIT => card \in dataset.forced_cards
    /\ \A p \in card_paths : p.path = "forced" => p.attempts = 50

\* a card number is on more records than the limit, after a forced fallback
C11_CardOverLimit ==
    \E card \in DOMAIN dataset.card_records :
        /\ dataset.card_records[card] > CARD_REUSE_LIMIT
        /\ card \in dataset.forced_cards
        /\ usage_count(uniqueness_tracker, card) = CARD_REUSE_LIMIT

\* C12 (Spec): select_client takes the repeat-visit branch (an entry of the pool,
\* pool unchanged, repeat_visits + 1) only with at least 50 entries in the pool;
\* with fewer than 50 entries it calls create_client and appends exactly one
\* entry, whatever the repeat draw is.
C12_RepeatOnlyWithFiftyClients ==
    [][call'.op = "generate_visit_record" =>
        /\ call'.client_outcome = "repeat" =>
            /\ clients_pool.size >= 50
            /\ call'.client \in clients_pool.entries
            /\ clients_pool' = clients_pool
            /\ stats'.repeat_visits = stats.repeat_visits + 1
            /\ stats'.new_clients = stats.new_clients
        /\ clients_pool.size < 50 =>
            /\ call'.client_outcome \in {"new", "existing"}
            /\ clients_pool'.size = clients_pool.size + 1
            /\ clients_pool'.entries = clients_pool.entries \cup {call'.client}
            /\ stats'.repeat_visits = stats.repeat_visits
            /\ stats'.new_clients = stats.new_clients + 1]_vars

\* a repeat visit has been made from a pool of 50 entries
C12_RepeatVisitMade ==
    /\ call.op = "generate_visit_record"
    /\ call.client_outcome = "repeat"
    /\ clients_pool.size = 50
    /\ stats.repeat_visits > 0

\* C13 as stated (SpecCreateClient): create_client abandons a generated name that
\* already has a registered passport and retries, raising RuntimeError after 100
\* attempts; it returns a client only for a name that had no passport.
C13_ReturnsOnlyUnregisteredNames ==
    fn.pc = "created" =>
        \/ fn.outcome = "raised" /\ fn.attempts = 100
        \/ /\ fn.outcome = "new"
           /\ fn.client.fio \notin DOMAIN fn.tracker.fio_to_passport

\* C13 amended (SpecCreateClient): create_client returns in its first iteration,
\* with no attempt abandoned and no RuntimeError: for a name that already has a
\* registered passport, a client with that passport and the SNILS stored for it;
\* for a name without a passport, the client it registers.
C13_ReturnsInFirstIteration ==
    fn.pc = "created" =>
        LET d == fn.draws[1]
        IN  /\ fn.outcome \in {"existing", "new"}
            /\ fn.attempts = 0
            /\ fn.client.fio = d.name.fio
            /\ IF d.name.fio \in DOMAIN fn.tracker.fio_to_passport
               THEN /\ fn.outcome = "existing"
                    /\ fn.client.passport = fn.tracker.fio_to_passport[d.name.fio]
                    /\ fn.client.snils
                           = fn.tracker.snils_by_client[<<d.name.fio, fn.client.passport>>]
                    /\ uniqueness_tracker = fn.tracker
               ELSE /\ fn.outcome = "new"
                    /\ uniqueness_tracker.fio_to_passport[d.name.fio] = fn.client.passport
                    /\ fn.client.passport = generated_passport(d.country, d.passport_data_ru).passport_data

\* create_client has returned the client of a registered name, with draws for a
\* second iteration left unread
C13_RegisteredNameReturned ==
    /\ fn.pc = "created"
    /\ fn.outcome = "existing"
    /\ Len(fn.draws) = 2
    /\ fn.draws[2].name.fio \notin DOMAIN fn.tracker.fio_to_passport

\* C15 (Spec): with the default configuration every record generate_visit_record
\* produces, for a new client, a repeat client or a client of an already registered
\* name, passes validate_record with no error: no record is skipped and
\* stats['validation_errors'] stays 0.
C15_GeneratedRecordsValidate ==
    /\ stats.validation_errors = 0
    /\ dataset.size = dataset.iterations
    /\ call.op = "generate_visit_record" =>
           /\ ~call.checked.raised
           /\ call.checked.is_valid
           /\ call.checked.errors = <<>>

\* a repeat client's record has been validated after records of a new client with
\* a long-form "ru" document, of the same name found registered (no issue date) and
\* of a client with a "kz" document
C15_RepeatRecordValidated ==
    /\ call.op = "generate_visit_record"
    /\ call.client_outcome = "repeat"
    /\ call.checked.is_valid
    /\ \E row \in dataset.rows :
           row.passport_country = "ru" /\ row.passport_issue_date = None
    /\ \E row \in dataset.rows :
           row.passport_country = "ru" /\ row.passport_issue_date # None
    /\ \E row \in dataset.rows : row.passport_country = "kz"

\* C16 as stated (SpecValidate): validate_record never raises: for every record,
\* including ones where a field is missing, empty, None or not a string, it
\* returns (valid, errors) with valid true exactly when errors is empty.
C16_ValidateRecordNeverRaises ==
    fn.pc \in {"validated", "raised"} =>
        /\ ~fn.result.raised
        /\ fn.result.is_valid <=> fn.result.errors = <<>>

\* C17 as stated (SpecValidate): for a "ru" record validate_record reports an
\* insurance error whenever the SNILS is absent or blank or fails the format or
\* the checksum; for "by" and "kz" an absent SNILS never produces an error.
C17_RuInsuranceRequired ==
    fn.pc = "validated" /\ ~fn.result.raised =>
        LET country == record_get_country(fn.record)
            snils   == record_get(fn.record, "SNILS", <<>>)
            reported == \E i \in 1..Len(fn.result.errors) : fn.result.errors[i] = "snils"
        IN  /\ country = "ru" /\ (snils = <<>> \/ ~validate_snils_format(snils)) => reported
            /\ country \in {"by", "kz"} /\ snils = <<>> => ~reported

\* both timestamps of the record are in the external format with the configured
\* offset and name a minute of the calendar
WellFormedTimestamps(record) ==
    \A key \in {"visit_date", "analysis_date"} :
        /\ IsStr(record[key])
        /\ MatchIsoDatetime(record[key])
        /\ EndsWith(record[key], TIMEZONE)
        /\ fromisoformat(Remove(record[key], TIMEZONE)).ok

\* the span from the visit to the analysis
TimestampDistance(record) ==
    Minus(Instant(fromisoformat(Remove(record.analysis_date, TIMEZONE))),
          Instant(fromisoformat(Remove(record.visit_date, TIMEZONE))))

\* the analysis is not after the visit by ANALYSIS_MIN_HOURS..ANALYSIS_MAX_HOURS
OutOfWindow(record) ==
    \/ ~Earlier(timedelta(0, 0, 0), TimestampDistance(record))
    \/ Earlier(TimestampDistance(record), timedelta_hours(ANALYSIS_MIN_HOURS))
    \/ Earlier(timedelta_hours(ANALYSIS_MAX_HOURS), TimestampDistance(record))

\* the record is a generated record but for its two timestamps
OnlyTimestampsReplaced(record) ==
    \E b \in BaseRecords :
        [record EXCEPT !.visit_date = b.visit_date, !.analysis_date = b.analysis_date] = b

\* C18 as stated (SpecValidate): validate_record reports an error for every record
\* whose analysis timestamp is not after its visit timestamp by between
\* ANALYSIS_MIN_HOURS and ANALYSIS_MAX_HOURS hours, even when both are well-formed.
C18_ValidateRecordReportsDistance ==
    fn.pc = "validated" /\ WellFormedTimestamps(fn.record) /\ OutOfWindow(fn.record) =>
        ~fn.result.raised /\ fn.result.errors # <<>>

\* C18 amended (SpecValidate): validate_record checks only the format of the two
\* timestamps, so a record that is otherwise valid and has well-formed timestamps
\* is valid whatever their distance.  The distance is reported by
\* validate_business_logic: for well-formed timestamps with the configured offset
\* it returns an error exactly when the analysis is not after the visit by between
\* ANALYSIS_MIN_HOURS and ANALYSIS_MAX_HOURS hours.
C18_DistanceReportedByBusinessLogic ==
    fn.pc = "validated" /\ WellFormedTimestamps(fn.record) =>
        /\ OnlyTimestampsReplaced(fn.record) =>
               ~fn.result.raised /\ fn.result.is_valid /\ fn.result.errors = <<>>
        /\ fn.business # <<>> <=> OutOfWindow(fn.record)
        /\ (\E i \in 1..Len(fn.business) : fn.business[i] = "analysis_not_after_visit")
               <=> ~Earlier(timedelta(0, 0, 0), TimestampDistance(fn.record))
        /\ (\E i \in 1..Len(fn.business) : fn.business[i] = "analysis_distance")
               <=> OutOfWindow(fn.record)

\* an otherwise valid record with well-formed timestamps one hour apart has been
\* accepted by validate_record and refused by validate_business_logic
C18_ShortDistanceAccepted ==
    /\ fn.pc = "validated"
    /\ WellFormedTimestamps(fn.record)
    /\ TimestampDistance(fn.record) = timedelta_hours(1)
    /\ fn.result.is_valid
    /\ fn.business = <<"analysis_distance">>

\* C19 as stated (Spec): every record of a name carries the identity fields fixed
\* at the name's first appearance: country, issue date, office code, document and
\* SNILS are the same in all records of one name.
C19_IdentityFieldsVerbatim ==
    \A a, b \in dataset.rows : a.FIO = b.FIO => a = b

\* C19 amended (Spec): all records of a name carry the same document number,
\* document country and SNILS.  The issue date and the office code of a "ru"
\* document are carried only by records of the client built at the name's first
\* appearance; the client create_client builds for an already registered name has
\* None in both, and so has every record made from it.
C19_DocumentCountrySnilsFixed ==
    /\ \A a, b \in dataset.rows :
           a.FIO = b.FIO =>
               /\ a.passport_data = b.passport_data
               /\ a.passport_country = b.passport_country
               /\ a.SNILS = b.SNILS
               /\ a.passport_issue_date # b.passport_issue_date =>
                      None \in {a.passport_issue_date, b.passport_issue_date}
               /\ a.passport_department_code # b.passport_department_code =>
                      None \in {a.passport_department_code, b.passport_department_code}
               /\ a.passport_issue_date = None <=> a.passport_department_code = None
    /\ call.op = "generate_visit_record" /\ call.client_outcome = "existing" =>
           /\ call.client.passport_issue_date = None
           /\ call.client.passport_department_code = None
           /\ call.client.country = "ru" =>
                  \E row \in dataset.rows :
                      /\ row.FIO = call.client.fio
                      /\ row.passport_issue_date = None

\* a name has a record with its issue date and office code and, from being drawn
\* again by create_client, a record of the same document without them
C19_IssueDateDropped ==
    /\ call.op = "generate_visit_record"
    /\ call.client_outcome = "existing"
    /\ \E a, b \in dataset.rows :
           /\ a.FIO = b.FIO /\ a.FIO = call.client.fio
           /\ a.passport_data = b.passport_data
           /\ a.passport_issue_date = RuPassportData.passport_issue_date
           /\ a.passport_department_code = RuPassportData.passport_department_code
           /\ b.passport_issue_date = None
           /\ b.passport_department_code = None

\* the run of generate_bank_card with BIN "400000" and nine digits 0 has returned
C20_ZeroCardGenerated ==
    /\ fn.pc = "card_done"
    /\ fn.bin_code = DigitsStr(<<4, 0, 0, 0, 0, 0>>)
    /\ fn.remaining = <<0, 0, 0, 0, 0, 0, 0, 0, 0>>

\* C20 as stated (SpecBankCard): for the prefix "400000" followed by the nine
\* digits "000000000" the check-digit search of generate_bank_card selects the
\* check digit "6" and the 16-digit number is Luhn-valid.
C20_CheckDigitSix ==
    C20_ZeroCardGenerated =>
        /\ fn.card_number[Len(fn.card_number)] = "6"
        /\ validate_card_number(fn.card_number).ret

\* C20 amended (SpecBankCard): for the prefix "400000" followed by the nine digits
\* "000000000" the check-digit search selects the check digit "2", the only digit
\* it accepts; the result is "4000 0000 0000 0002" and it is Luhn-valid.
C20_CheckDigitTwo ==
    C20_ZeroCardGenerated =>
        /\ fn.check_digits = {2}
        /\ fn.card_number = DigitsStr(<<4, 0, 0, 0>>) \o <<" ">> \o DigitsStr(<<0, 0, 0, 0>>)
                               \o <<" ">> \o DigitsStr(<<0, 0, 0, 0>>) \o <<" ">>
                               \o DigitsStr(<<0, 0, 0, 2>>)
        /\ validate_card_number(fn.card_number).ret

\* the card of prefix "400000" and nine digits 0 has been generated with a check
\* digit that validate_card_number accepts
C20_ZeroCardValid ==
    /\ C20_ZeroCardGenerated
    /\ Len(fn.card_number) = 19
    /\ validate_card_number(fn.card_number).ret

\* the tracker after a step holds everything the tracker before it held
TrackerGrows(before, after) ==
    /\ before.passports \subseteq after.passports
    /\ \A fio \in DOMAIN before.fio_to_passport :
           /\ fio \in DOMAIN after.fio_to_passport
           /\ after.fio_to_passport[fio] = before.fio_to_passport[fio]
    /\ \A client_key \in DOMAIN before.snils_by_client :
           /\ client_key \in DOMAIN after.snils_by_client
           /\ after.snils_by_client[client_key] = before.snils_by_client[client_key]
    /\ \A card_number \in DOMAIN before.card_usage :
           /\ card_number \in DOMAIN after.card_usage
           /\ after.card_usage[card_number] >= before.card_usage[card_number]

\* C21 (Spec): the tracker starts empty and only grows: across the
\* generate_visit_record calls of a run no key is removed from fio_to_passport,
\* snils_by_client, passports or card_usage, the document of a name and the SNILS
\* of a pair never change once set, and no card's usage count decreases.
C21_TrackerOnlyGrows ==
    /\ uniqueness_tracker = NewTracker
    /\ [][TrackerGrows(uniqueness_tracker, uniqueness_tracker')]_vars

\* two names with different documents are registered, each with its SNILS, and a
\* card has been used more than once
C21_TrackerHasGrown ==
    /\ Cardinality(DOMAIN uniqueness_tracker.fio_to_passport) = 2
    /\ Cardinality(uniqueness_tracker.passports) = 2
    /\ Cardinality(DOMAIN uniqueness_tracker.snils_by_client) = 2
    /\ \E card_number \in DOMAIN uniqueness_tracker.card_usage :
           uniqueness_tracker.card_usage[card_number] > 1

\* C22 (SpecDataset): generate_dataset keeps exactly the records whose assembly
\* and checks raised nothing: an iteration whose generate_visit_record raised
\* appends nothing and the loop goes on with the next iteration; every other
\* iteration appends its record, whatever errors validate_record and
\* validate_business_logic returned for it, the errors of validate_record being
\* only counted; so the list never holds more than size records nor more records
\* than iterations.
C22_RecordAppendedOrSkipped ==
    /\ dataset = EmptyDataset
    /\ [][/\ dataset'.iterations = dataset.iterations + 1
          /\ dataset'.iterations <= sample.size
          /\ dataset'.size <= dataset'.iterations
          /\ IF call'.raised
             THEN /\ dataset'.size = dataset.size
                  /\ dataset'.rows = dataset.rows
                  /\ dataset'.card_records = dataset.card_records
                  /\ stats'.validation_errors = stats.validation_errors
                  /\ call'.business = None
             ELSE /\ dataset'.size = dataset.size + 1
                  /\ dataset'.rows = dataset.rows \cup {identity_fields(call'.client)}
                  /\ \E card_number \in sample.cards :
                         dataset'.card_records
                             = Put(dataset.card_records, card_number,
                                   Get(dataset.card_records, card_number, 0) + 1)
                  /\ stats'.validation_errors
                         = stats.validation_errors + Len(call'.checked.errors)
                  /\ call'.checked.is_valid <=> call'.checked.errors = <<>>
                  /\ call'.business # None]_vars

\* a run has ended in which the assembly of a record raised after its client was
\* created, and the last iteration appended a record for which validate_record
\* returned an error: every iteration but the skipped one appended a record, and
\* the error is counted
C22_SkippedAndFlaggedAppended ==
    /\ dataset.iterations = sample.size
    /\ dataset.size = dataset.iterations - 1
    /\ stats.new_clients > Cardinality(dataset.rows)
    /\ call.op = "generate_visit_record"
    /\ ~call.raised
    /\ ~call.checked.is_valid
    /\ call.checked.errors # <<>>
    /\ stats.validation_errors >= Len(call.checked.errors)
    /\ identity_fields(call.client) \in dataset.rows

\* C23 (Spec): a newly created client of any country has a non-empty SNILS that is
\* registered in the tracker; between record generations snils_by_client has an
\* entry for (name, fio_to_passport[name]) for every registered name, and every
\* key of snils_by_client is such a pair.
C23_SnilsRegisteredForEveryName ==
    LET tr == uniqueness_tracker
    IN  /\ \A fio \in DOMAIN tr.fio_to_passport :
               /\ <<fio, tr.fio_to_passport[fio]>> \in DOMAIN tr.snils_by_client
               /\ Truthy(tr.snils_by_client[<<fio, tr.fio_to_passport[fio]>>])
        /\ \A client_key \in DOMAIN tr.snils_by_client :
               /\ client_key[1] \in DOMAIN tr.fio_to_passport
               /\ tr.fio_to_passport[client_key[1]] = client_key[2]
        /\ call.op = "generate_visit_record" /\ call.client_outcome = "new" =>
               /\ Truthy(call.client.snils)
               /\ validate_snils_format(call.client.snils)
               /\ get_client_snils(tr, call.client.fio, call.client.passport)
                      = call.client.snils

\* a client with a "kz" document has just been created, after a client with a
\* "by" document
C23_ForeignClientCreated ==
    /\ call.op = "generate_visit_record"
    /\ call.client_outcome = "new"
    /\ call.client.country = "kz"
    /\ \E row \in dataset.rows : row.passport_country = "by"
    /\ Cardinality(DOMAIN uniqueness_tracker.snils_by_client) = 2

\* the probability mass of the first i categories, the probabilities taken as the
\* numbers written in the mapping
CumulativeMass(distribution, i) == SumValues([j \in 1..i |-> distribution[j].prob])

\* the float that the loop has accumulated after the first i categories
RECURSIVE RunningSum(_, _)
RunningSum(distribution, i) ==
    IF i = 0 THEN binary64(0, 1)
    ELSE float_add(RunningSum(distribution, i - 1),
                   binary64(distribution[i].prob, ProbabilityScale))

\* the default of the selection named by kind
DefaultCategory(kind) ==
    IF kind = "country" THEN "ru" ELSE IF kind = "bank" THEN "sberbank" ELSE "mir"

ReachingRunningSum(distribution, rand) ==
    {i \in 1..Len(distribution) :
        float_le(binary64(rand, ProbabilityScale), RunningSum(distribution, i))}

C24_DefaultReturned ==
    /\ fn.pc = "selected"
    /\ fn.kind = "bank"
    /\ fn.rand > CumulativeMass(fn.distribution, Len(fn.distribution))
    /\ fn.selected = "sberbank"

\* The attempt cap of a retry loop
RetryCap(loop) ==
    IF loop = "create_client" THEN create_client_max_attempts
    ELSE IF loop = "new_card" THEN card_max_attempts
    ELSE analysis_max_attempts

\* C25: whatever is drawn, every retry loop ends by its attempt cap: the number
\* of attempts never exceeds 100 in create_client, 50 in the loop of the new card
\* (the forced card comes after them) and 10 in generate_analysis_datetime, and
\* every loop reaches its return or its raise.
C25_RetryLoopsEndByCap ==
    /\ [](fn.attempts <= RetryCap(fn.loop))
    /\ <>(fn.pc \in {"return", "raise", "new", "forced"})

\* the loop of the new card has rejected 50 cards and ended with the forced card
C25_CardLoopExhausted ==
    /\ fn.loop = "new_card"
    /\ fn.pc = "forced"
    /\ fn.attempts = card_max_attempts

\* C26 as stated (Spec): no two distinct names are registered with the same
\* document number, that is fio_to_passport is injective, and the unique_passports
\* of get_stats equals its unique_clients.
C26_DocumentsInjective ==
    LET registered == uniqueness_tracker.fio_to_passport
    IN  /\ \A f1, f2 \in DOMAIN registered :
              registered[f1] = registered[f2] => f1 = f2
        /\ get_stats(uniqueness_tracker).unique_passports
              = get_stats(uniqueness_tracker).unique_clients

\* C27 as stated (SpecCards): every appended record has incremented the usage
\* count of the card it carries by 1, so for every card number the usage count of
\* the tracker equals the number of records carrying it, and total_card_usage
\* equals the number of records.
C27_UsageEqualsRecords ==
    /\ \A card \in DOMAIN dataset.card_records \cup DOMAIN uniqueness_tracker.card_usage :
          usage_count(uniqueness_tracker, card) = Get(dataset.card_records, card, 0)
    /\ get_stats(uniqueness_tracker).total_card_usage = dataset.size

\* C28 as stated (Spec): the pool never holds two entries with the same full
\* name, and len(clients_pool) = stats['new_clients'] = unique_clients of the
\* tracker.
C28_PoolHoldsDistinctNames ==
    /\ clients_pool.size = Cardinality({entry.fio : entry \in clients_pool.entries})
    /\ clients_pool.size = stats.new_clients
    /\ stats.new_clients = get_stats(uniqueness_tracker).unique_clients

====
